---- MODULE Spec2Model ----
(***************************************************************************)
(* Order-processing microservices: the circuit breaker                     *)
(* (shared/utils/circuit-breaker.ts), the retry handler (shared/utils/     *)
(* retry.ts), the publish path of the message-queue manager and the order  *)
(* state machine of the order service.                                      *)
(*                                                                         *)
(* Every async method is cut at its awaits: one action per stretch of      *)
(* synchronous code.  Time is the value Date.now() returns, in ms.         *)
(*                                                                         *)
(* Each component has its own specification over the same variables:       *)
(*   SpecBreaker     one CircuitBreaker, its execute calls overlapping     *)
(*   SpecBreakerSeq  the same with the execute calls made one at a time    *)
(*   SpecRetry       one RetryHandler                                      *)
(*   SpecOrder       the OrderService with its RetryHandler and the        *)
(*                   manager's breaker, requests served one at a time      *)
(***************************************************************************)
EXTENDS Integers, Sequences, FiniteSets, TLC

VARIABLES
    now,        \* Date.now()
    cb,         \* CircuitBreaker.state
    calls,      \* per caller of CircuitBreaker.execute: where the call stands
    streak,     \* history: wrapped operations that failed since the last success
    rh,         \* one RetryHandler and the execute call running on it
    channel,    \* MessageQueueManager.channel !== null
    orders,     \* the orders collection, by orderId
    reqs,       \* per request slot of the order service: the call running in it
    mq,         \* MessageQueueManager: connection, reconnect state, close() call
    pub,        \* history: the last publishEvent call made on the manager directly
    msgs,       \* the broker's queue: the messages and their deliveries
    products,   \* the products collection, by productId
    invc,       \* per call slot of the inventory service: the call running in it
    proc,       \* the inventory service's processOrderCreated / processOrderCancelled call
    notifs,     \* the notifications collection, by id
    notc,       \* per call slot of the notification service: the call running in it
    wire        \* one event envelope on its way from publishEvent to a handler

ordVars == <<channel, orders, reqs>>
mqVars == <<mq, pub, msgs>>
invVars == <<products, invc, proc>>
ntfVars == <<notifs, notc, wire>>
vars == <<now, cb, calls, streak, rh, channel, orders, reqs,
          mq, pub, msgs, products, invc, proc, notifs, notc, wire>>

Min(a, b) == IF a <= b THEN a ELSE b
Max(a, b) == IF a >= b THEN a ELSE b

RECURSIVE Pow2(_)
Pow2(n) == IF n <= 0 THEN 1 ELSE 2 * Pow2(n - 1)

-----------------------------------------------------------------------------
(* Bounds                                                                  *)

MaxThreshold == 3       \* failure thresholds 1..MaxThreshold
MaxTimeout == 2         \* breaker timeouts 0..MaxTimeout ms
MaxCallers == 2         \* callers of one breaker
MaxFailureCount == 4    \* failureCount is not driven beyond this
CBMaxNow == 4           \* the breaker's clock is not driven beyond this
MaxAttempts == 5        \* maxAttempts 0..MaxAttempts
RandDen == 2            \* Math.random() is r / RandDen, r in 0..RandDen-1
MaxOrders == 1          \* order ids
MaxRequests == 1        \* request slots of the order service
MaxConcRequests == 2    \* requests the order service serves at once
OrdMaxNow == 33000      \* the order service's clock is not driven beyond this
TimerGrid == 3000       \* a sleep's timer fires at the first multiple of this
                        \* many ms at or after its delay has passed
MaxEvents == 12         \* connection 'error' and 'close' events
MaxStock == 2           \* stock quantities up to this
MaxQty == 2             \* reserved and released quantities 0..MaxQty
MaxReservations == 1    \* reservation records of one product
MaxInvCalls == 1        \* call slots of the inventory service
MaxConcInvCalls == 2    \* calls the inventory service serves at once
MaxMessages == 2        \* messages in the queue
MaxPublishCalls == 6    \* publishEvent calls made on the manager directly
PubStep == 15000        \* the clock of those calls moves in steps of this many ms
PubMaxNow == 60000      \* and is not driven beyond this
MaxNotifs == 2          \* notification ids
MaxNtfCalls == 1        \* call slots of the notification service
MaxConcNtfCalls == 2    \* retryNotification calls served at once

-----------------------------------------------------------------------------
(* CircuitBreaker                                                          *)

Callers == 1..MaxCallers

\* constructor(failureThreshold, timeoutMs)
CircuitBreakerNew(failureThreshold, timeoutMs) ==
    [status |-> "CLOSED", failureCount |-> 0, lastFailureTime |-> 0,
     threshold |-> failureThreshold, timeout |-> timeoutMs]

shouldAttemptResetAlways(s, t) == TRUE

shouldAttemptReset(s, t) == t - s.lastFailureTime >= s.timeout

onSuccessKeepCount(s) == [s EXCEPT !.status = "CLOSED"]

onSuccess(s) == [s EXCEPT !.failureCount = 0, !.status = "CLOSED"]

onFailureStrict(s, t) ==
    LET n == s.failureCount + 1 IN
    [s EXCEPT !.failureCount = n,
              !.lastFailureTime = t,
              !.status = IF n > s.threshold THEN "OPEN" ELSE s.status]

onFailureRestart(s, t) ==
    LET n == IF s.status = "HALF_OPEN" THEN 1 ELSE s.failureCount + 1 IN
    [s EXCEPT !.failureCount = n,
              !.lastFailureTime = t,
              !.status = IF n >= s.threshold \/ s.status = "HALF_OPEN"
                         THEN "OPEN" ELSE s.status]

onFailure(s, t) ==
    LET n == s.failureCount + 1 IN
    [s EXCEPT !.failureCount = n,
              !.lastFailureTime = t,
              !.status = IF n >= s.threshold THEN "OPEN" ELSE s.status]

\* The synchronous head of execute: the OPEN check.  invoke = FALSE is the
\* throw of 'Circuit breaker is OPEN'; otherwise the operation is invoked.
executeEnter(s, t) ==
    IF s.status = "OPEN"
    THEN IF shouldAttemptReset(s, t)
         THEN [state |-> [s EXCEPT !.status = "HALF_OPEN"], invoke |-> TRUE]
         ELSE [state |-> s, invoke |-> FALSE]
    ELSE [state |-> s, invoke |-> TRUE]

IdleCall == [st |-> "idle", probe |-> FALSE, fcAtEntry |-> 0]

InFlight(c) == calls[c].st = "running"

\* execute() up to 'await operation()'
CBExecute(c) ==
    /\ ~InFlight(c)
    /\ LET e == executeEnter(cb, now) IN
       /\ cb' = e.state
       /\ calls' = [calls EXCEPT ![c] =
             IF e.invoke
             THEN [st |-> "running",
                   probe |-> (cb.status = "OPEN"),
                   fcAtEntry |-> IF cb.status = "OPEN" THEN cb.failureCount ELSE 0]
             ELSE [st |-> "open", probe |-> FALSE, fcAtEntry |-> 0]]
    /\ UNCHANGED <<now, streak, rh, ordVars, mqVars, invVars, ntfVars>>

\* the operation resolved: onSuccess(), return result
CBOperationResolves(c) ==
    /\ InFlight(c)
    /\ cb' = onSuccess(cb)
    /\ calls' = [calls EXCEPT ![c].st = "resolved"]
    /\ streak' = 0
    /\ UNCHANGED <<now, rh, ordVars, mqVars, invVars, ntfVars>>

\* the operation rejected: onFailure(), rethrow
CBOperationRejects(c) ==
    /\ InFlight(c)
    /\ cb.failureCount < MaxFailureCount
    /\ cb' = onFailure(cb, now)
    /\ calls' = [calls EXCEPT ![c].st = "rejected"]
    /\ streak' = streak + 1
    /\ UNCHANGED <<now, rh, ordVars, mqVars, invVars, ntfVars>>

CBTick ==
    /\ now < CBMaxNow
    /\ now' = now + 1
    /\ UNCHANGED <<cb, calls, streak, rh, ordVars, mqVars, invVars, ntfVars>>

-----------------------------------------------------------------------------
(* RetryHandler                                                            *)

DefaultMaxAttempts == 3
DefaultBackoffMs == 1000
DefaultMaxBackoffMs == 10000

\* Delays are kept as multiples of 1/Scale ms, so that the jittered product
\* is exact.
Scale == 2 * RandDen

Randoms == 0..(RandDen - 1)

\* (backoffMs, maxBackoffMs) pairs the handler is constructed with
BackoffConfigs == {<<DefaultBackoffMs, DefaultMaxBackoffMs>>, <<10000, 15000>>, <<1, 3>>}

RetryConfigs ==
    {[maxAttempts |-> m, backoffMs |-> b[1], maxBackoffMs |-> b[2], jitter |-> j] :
        m \in 0..MaxAttempts, b \in BackoffConfigs, j \in BOOLEAN}

\* Values an operation rejects with: Error objects, and a thrown string.
Thrown == {"Error:first", "Error:second", "string"}

\* (error as Error).message
ErrorMessage(e) ==
    CASE e = "Error:first" -> "first"
      [] e = "Error:second" -> "second"
      [] OTHER -> "undefined"

calculateDelayUncapped(cfg, attempt, r) ==
    LET baseDelay == cfg.backoffMs * Pow2(attempt - 1) IN
    IF cfg.jitter THEN baseDelay * (RandDen + r) ELSE baseDelay * Scale

\* calculateDelay(attempt) * Scale, with Math.random() = r / RandDen:
\* baseDelay * (0.5 + random * 0.5) = baseDelay * (RandDen + r) / Scale
calculateDelay(cfg, attempt, r) ==
    LET baseDelay == cfg.backoffMs * Pow2(attempt - 1)
        jitteredDelay == IF cfg.jitter THEN baseDelay * (RandDen + r)
                         ELSE baseDelay * Scale
    IN Min(jitteredDelay, cfg.maxBackoffMs * Scale)

isLastAttemptEarly(cfg, attempt) == attempt + 1 >= cfg.maxAttempts

isLastAttemptNever(cfg, attempt) == attempt > cfg.maxAttempts

\* attempt === this.config.maxAttempts
isLastAttempt(cfg, attempt) == attempt = cfg.maxAttempts

\* the loop condition: attempt <= this.config.maxAttempts
loopContinues(cfg, attempt) == attempt <= cfg.maxAttempts

\* the Error execute throws after the last attempt
FailedAfter(attempt, e) ==
    <<"Operation failed after ", attempt, " attempts: ", ErrorMessage(e)>>

\* setTimeout(resolve, ms) waits floor(ms) ms
SleepMs(delayScaled) == delayScaled \div Scale

RHNew(cfg) ==
    [config |-> cfg, pc |-> "idle", attempt |-> 0, invocations |-> 0,
     succeededAt |-> 0, delays |-> <<>>, lastError |-> "none", result |-> <<>>]

\* execute(operation): the loop starts with attempt = 1
RHExecute ==
    /\ rh.pc \in {"idle", "resolved", "rejected"}
    /\ rh' = IF loopContinues(rh.config, 1)
             THEN [RHNew(rh.config) EXCEPT !.pc = "call", !.attempt = 1]
             ELSE [RHNew(rh.config) EXCEPT !.pc = "rejected", !.attempt = 1,
                                           !.result = <<"lastError", "none">>]
    /\ UNCHANGED <<now, cb, calls, streak, ordVars, mqVars, invVars, ntfVars>>

\* 'return await operation()' with the operation resolving
RHOperationResolves ==
    /\ rh.pc = "call"
    /\ rh' = [rh EXCEPT !.pc = "resolved",
                        !.invocations = @ + 1,
                        !.succeededAt = rh.attempt,
                        !.result = <<"value", rh.attempt>>]
    /\ UNCHANGED <<now, cb, calls, streak, ordVars, mqVars, invVars, ntfVars>>

\* the operation rejecting with e: the catch block
RHOperationRejects(e, r) ==
    /\ rh.pc = "call"
    /\ IF isLastAttempt(rh.config, rh.attempt)
       THEN rh' = [rh EXCEPT !.pc = "rejected",
                             !.invocations = @ + 1,
                             !.lastError = e,
                             !.result = FailedAfter(rh.attempt, e)]
       ELSE rh' = [rh EXCEPT !.pc = "sleep",
                             !.invocations = @ + 1,
                             !.lastError = e,
                             !.delays = Append(@, calculateDelay(rh.config, rh.attempt, r))]
    /\ UNCHANGED <<now, cb, calls, streak, ordVars, mqVars, invVars, ntfVars>>

\* the timer of sleep(delay) fires: attempt++
RHWake ==
    /\ rh.pc = "sleep"
    /\ rh' = IF loopContinues(rh.config, rh.attempt + 1)
             THEN [rh EXCEPT !.pc = "call", !.attempt = @ + 1]
             ELSE [rh EXCEPT !.pc = "rejected", !.attempt = @ + 1,
                             !.result = <<"lastError", rh.lastError>>]
    /\ UNCHANGED <<now, cb, calls, streak, ordVars, mqVars, invVars, ntfVars>>

-----------------------------------------------------------------------------
(* MessageQueueManager.publishEvent and the OrderService                   *)

MQBreakerThreshold == 3
MQBreakerTimeout == 30000

maxReconnectAttempts == 10
reconnectDelay == 5000

\* handling (history): the messages whose handler was running when close()
\* was called
IdleClose ==
    [pc |-> "idle", channelCloseFailed |-> FALSE,
     connectionCloseAttempted |-> FALSE, result |-> "none", handling |-> {}]

\* The manager after its constructor.  handlers: some connection object has
\* the 'error' and 'close' handlers registered.  timers: per attempt number,
\* the reconnect timers set and not yet fired.  scheduled (history): the
\* delays of the timers set since the last successful connect().  events
\* (history): connection events so far.  report: what the last
\* scheduleReconnect logged.
MQNew ==
    [connection |-> FALSE, handlers |-> FALSE, reconnectAttempts |-> 0,
     timers |-> [k \in 1..maxReconnectAttempts |-> 0], scheduled |-> <<>>,
     events |-> 0, report |-> "none", consuming |-> FALSE, close |-> IdleClose]

\* connect() running to its end without a throw; the channel it created has
\* no consumer
connectOk(m) ==
    [m EXCEPT !.connection = TRUE, !.handlers = TRUE, !.consuming = FALSE,
              !.reconnectAttempts = 0, !.scheduled = <<>>]

OrderIds == 1..MaxOrders
Requests == 1..MaxRequests

Statuses == {"pending", "confirmed", "processing", "shipped", "delivered", "cancelled"}

\* item lists createOrder is called with: empty, and two orders
ItemLists ==
    {<<>>,
     <<[price |-> 50, quantity |-> 2], [price |-> 100, quantity |-> 1]>>,
     <<[price |-> 10, quantity |-> 1]>>}

\* the items argument: null/undefined (not given), or a list
ItemArgs ==
    {[given |-> FALSE, list |-> <<>>]} \cup {[given |-> TRUE, list |-> l] : l \in ItemLists}

NoOrder == [status |-> "none", items |-> <<>>, total |-> 0]

IdleReq ==
    [op |-> "none", orderId |-> 0, arg |-> "none", pc |-> "idle", read |-> "none",
     doc |-> NoOrder, attempt |-> 0, wakeAt |-> 0, handed |-> 0,
     evType |-> "none", evStatus |-> "none", result |-> "none"]

RECURSIVE calcTotalPricesOnly(_)
calcTotalPricesOnly(items) ==
    IF Len(items) = 0 THEN 0
    ELSE calcTotalPricesOnly(SubSeq(items, 1, Len(items) - 1)) + items[Len(items)].price

\* items.reduce((sum, item) => sum + item.price * item.quantity, 0)
RECURSIVE calcTotal(_)
calcTotal(items) ==
    IF Len(items) = 0 THEN 0
    ELSE calcTotal(SubSeq(items, 1, Len(items) - 1))
         + items[Len(items)].price * items[Len(items)].quantity

validTransitions(currentStatus) ==
    CASE currentStatus = "pending" -> {"confirmed", "cancelled"}
      [] currentStatus = "confirmed" -> {"processing", "cancelled"}
      [] currentStatus = "processing" -> {"shipped", "cancelled"}
      [] currentStatus = "shipped" -> {"delivered"}
      [] OTHER -> {}

isValidStatusTransitionLoose(currentStatus, newStatus) ==
    newStatus \in validTransitions(currentStatus) \/ newStatus = "cancelled"

isValidStatusTransitionSkip(currentStatus, newStatus) ==
    newStatus \in validTransitions(currentStatus)
        \/ (currentStatus = "pending" /\ newStatus = "delivered")

isValidStatusTransition(currentStatus, newStatus) ==
    newStatus \in validTransitions(currentStatus)

canCancelOrderAny(status) == status # "delivered"

canCancelOrder(status) == status \in {"pending", "confirmed", "processing"}

\* createRetryHandler({ maxAttempts: 3, backoffMs: 1000 })
OrderRetryConfig ==
    [maxAttempts |-> 3, backoffMs |-> 1000,
     maxBackoffMs |-> DefaultMaxBackoffMs, jitter |-> TRUE]

Free(r) == reqs[r].pc = "idle"

\* setTimeout fires at or after its delay: here at the next grid time
FireTime(t, delayScaled) ==
    LET due == t + SleepMs(delayScaled) IN
    ((due + TimerGrid - 1) \div TimerGrid) * TimerGrid

\* uuidv4(): an id no stored order and no order being created has
FreshIds ==
    {o \in OrderIds :
        /\ orders[o] = NoOrder
        /\ \A d \in DOMAIN reqs : ~(reqs[d].pc = "save" /\ reqs[d].orderId = o)}

Throws(r, res) == [reqs[r] EXCEPT !.pc = "done", !.result = res]

noItemsNullOnly(items) == ~items.given

\* !items || items.length === 0
noItems(items) == ~items.given \/ Len(items.list) = 0

\* the items argument as the call was given it (history)
ItemsGiven(items) ==
    IF ~items.given THEN "null" ELSE IF Len(items.list) = 0 THEN "empty" ELSE "items"

\* createOrder up to 'await order.save()'
OrdCreateOrder(r, items) ==
    /\ Free(r)
    /\ IF noItems(items)
       THEN reqs' = [reqs EXCEPT ![r] =
                [IdleReq EXCEPT !.op = "createOrder", !.pc = "done",
                                !.arg = ItemsGiven(items),
                                !.result = "no_items"]]
       ELSE /\ FreshIds # {}
            /\ LET o == CHOOSE x \in FreshIds : \A y \in FreshIds : x <= y IN
               reqs' = [reqs EXCEPT ![r] =
                [IdleReq EXCEPT !.op = "createOrder", !.orderId = o, !.pc = "save",
                                !.arg = ItemsGiven(items),
                                !.doc = [status |-> "pending", items |-> items.list,
                                         total |-> calcTotal(items.list)],
                                !.evType = "order.created"]]
    /\ UNCHANGED <<now, cb, calls, streak, rh, channel, orders, mqVars, invVars, ntfVars>>

\* updateOrderStatus up to 'await order.save()': findOne, the transition check
OrdUpdateOrderStatus(r, o, newStatus) ==
    /\ Free(r)
    /\ LET q == [IdleReq EXCEPT !.op = "updateOrderStatus", !.orderId = o,
                                !.arg = newStatus, !.read = orders[o].status] IN
       reqs' = [reqs EXCEPT ![r] =
          IF orders[o] = NoOrder
          THEN [q EXCEPT !.pc = "done", !.result = "not_found"]
          ELSE IF ~isValidStatusTransition(orders[o].status, newStatus)
          THEN [q EXCEPT !.pc = "done", !.result = "invalid_transition"]
          ELSE [q EXCEPT !.pc = "save",
                         !.doc = [orders[o] EXCEPT !.status = newStatus],
                         !.evType = "order.updated"]]
    /\ UNCHANGED <<now, cb, calls, streak, rh, channel, orders, mqVars, invVars, ntfVars>>

\* cancelOrder up to 'await order.save()': findOne and the two checks
OrdCancelOrder(r, o) ==
    /\ Free(r)
    /\ LET q == [IdleReq EXCEPT !.op = "cancelOrder", !.orderId = o,
                                !.arg = "cancelled", !.read = orders[o].status] IN
       reqs' = [reqs EXCEPT ![r] =
          IF orders[o] = NoOrder
          THEN [q EXCEPT !.pc = "done", !.result = "not_found"]
          ELSE IF orders[o].status = "cancelled"
          THEN [q EXCEPT !.pc = "done", !.result = "already_cancelled"]
          ELSE IF ~canCancelOrder(orders[o].status)
          THEN [q EXCEPT !.pc = "done", !.result = "cannot_cancel"]
          ELSE [q EXCEPT !.pc = "save",
                         !.doc = [orders[o] EXCEPT !.status = "cancelled"],
                         !.evType = "order.cancelled"]]
    /\ UNCHANGED <<now, cb, calls, streak, rh, channel, orders, mqVars, invVars, ntfVars>>

\* order.save(): the pre-save total check, then the write (a new document
\* whole, a loaded one by its modified paths); publishOrderEvent builds the
\* event from the saved order and enters retryHandler.execute
OrdSave(r) ==
    /\ reqs[r].pc = "save"
    /\ LET q == reqs[r] IN
       IF calcTotal(q.doc.items) # q.doc.total
       THEN /\ reqs' = [reqs EXCEPT ![r] = Throws(r, "total_mismatch")]
            /\ UNCHANGED orders
       ELSE /\ orders' = [orders EXCEPT ![q.orderId] =
                  IF q.op = "createOrder" THEN q.doc
                  ELSE [@ EXCEPT !.status = q.doc.status]]
            /\ reqs' = [reqs EXCEPT ![r] =
                  IF loopContinues(OrderRetryConfig, 1)
                  THEN [q EXCEPT !.pc = "publish", !.attempt = 1,
                                 !.evStatus = q.doc.status]
                  ELSE [q EXCEPT !.pc = "done", !.result = "ok",
                                 !.evStatus = q.doc.status]]
    /\ UNCHANGED <<now, cb, calls, streak, rh, channel, mqVars, invVars, ntfVars>>

publishOrderEventRethrows(q) == [q EXCEPT !.pc = "done", !.result = "publish_failed"]

\* the catch block of publishOrderEvent: it logs, and the method goes on to
\* return the saved order
publishOrderEventCatch(q) == [q EXCEPT !.pc = "done", !.result = "ok"]

\* What channel.publish does with the message: takes it and returns true,
\* takes it and returns false (its buffer is full), or throws.
PublishOutcomes == {"true", "false", "throw"}

\* One attempt of the retried operation: messageQueue.publishEvent(event)
\* through the manager's breaker, then 'if (!success) throw', then the retry
\* handler's catch block.  The event is published again on every attempt.
OrdPublish(r, outcome, rnd) ==
    /\ reqs[r].pc = "publish"
    /\ LET q == reqs[r]
           e == executeEnter(cb, now)
           reached == e.invoke /\ channel /\ outcome # "throw"
           failed == ~reached \/ outcome = "false"
       IN
       /\ cb' = IF ~e.invoke THEN e.state
                ELSE IF reached THEN onSuccess(e.state)
                ELSE onFailure(e.state, now)
       /\ reqs' = [reqs EXCEPT ![r] =
             IF ~failed
             THEN [q EXCEPT !.pc = "done", !.result = "ok", !.handed = @ + 1]
             ELSE IF isLastAttempt(OrderRetryConfig, q.attempt)
             THEN publishOrderEventCatch(
                      [q EXCEPT !.handed = IF reached THEN @ + 1 ELSE @])
             ELSE [q EXCEPT !.pc = "sleep",
                            !.handed = IF reached THEN @ + 1 ELSE @,
                            !.wakeAt = FireTime(now,
                                calculateDelay(OrderRetryConfig, q.attempt, rnd))]]
    /\ UNCHANGED <<now, calls, streak, rh, channel, orders, mqVars, invVars, ntfVars>>

\* the timer of the retry handler's sleep(delay) fires
OrdWake(r) ==
    /\ reqs[r].pc = "sleep"
    /\ reqs[r].wakeAt <= OrdMaxNow
    /\ now' = IF now >= reqs[r].wakeAt THEN now ELSE reqs[r].wakeAt
    /\ reqs' = [reqs EXCEPT ![r] =
          IF loopContinues(OrderRetryConfig, reqs[r].attempt + 1)
          THEN [@ EXCEPT !.pc = "publish", !.attempt = @ + 1, !.wakeAt = 0]
          ELSE publishOrderEventCatch([@ EXCEPT !.wakeAt = 0])]
    /\ UNCHANGED <<cb, calls, streak, rh, channel, orders, mqVars, invVars, ntfVars>>

\* the call returns (or throws) to its caller
OrdReturn(r) ==
    /\ reqs[r].pc = "done"
    /\ reqs' = [reqs EXCEPT ![r] = IdleReq]
    /\ UNCHANGED <<now, cb, calls, streak, rh, channel, orders, mqVars, invVars, ntfVars>>

\* connect() succeeds: this.channel = await this.connection.createChannel()
MQConnect ==
    /\ ~channel
    /\ channel' = TRUE
    /\ mq' = connectOk(mq)
    /\ UNCHANGED <<now, cb, calls, streak, rh, orders, reqs, pub, msgs, invVars, ntfVars>>

\* The service is idle for one breaker timeout.
OrdTick ==
    /\ now + MQBreakerTimeout <= OrdMaxNow
    /\ now' = now + MQBreakerTimeout
    /\ UNCHANGED <<cb, calls, streak, rh, ordVars, mqVars, invVars, ntfVars>>

-----------------------------------------------------------------------------
(* MessageQueueManager: connect, reconnection, close                       *)

\* Where connect() throws: in amqp.connect, in createChannel, or in
\* setupExchangesAndQueues.
ConnectOutcomes == {"ok", "connect_fails", "createChannel_fails", "setup_fails"}

scheduleReconnectOffByOne(m) ==
    IF m.reconnectAttempts > maxReconnectAttempts
    THEN [m EXCEPT !.report = "max_reached"]
    ELSE LET k == m.reconnectAttempts + 1 IN
         [m EXCEPT !.reconnectAttempts = k,
                   !.timers[Min(k, maxReconnectAttempts)] = @ + 1,
                   !.scheduled = Append(@, reconnectDelay * Pow2(k - 1)),
                   !.report = "scheduled"]

scheduleReconnect(m) ==
    IF m.reconnectAttempts >= maxReconnectAttempts
    THEN [m EXCEPT !.report = "max_reached"]
    ELSE LET k == m.reconnectAttempts + 1 IN
         [m EXCEPT !.reconnectAttempts = k,
                   !.timers[k] = @ + 1,
                   !.scheduled = Append(@, reconnectDelay * Pow2(k - 1)),
                   !.report = "scheduled"]

\* the connection emits 'error': handleConnectionError
MQConnectionError ==
    /\ mq.handlers
    /\ mq.events < MaxEvents
    /\ mq' = [scheduleReconnect(mq) EXCEPT !.events = @ + 1]
    /\ UNCHANGED <<now, cb, calls, streak, rh, ordVars, pub, msgs, invVars, ntfVars>>

\* the connection emits 'close': handleConnectionClose
MQConnectionClose ==
    /\ mq.handlers
    /\ mq.events < MaxEvents
    /\ mq' = [scheduleReconnect(mq) EXCEPT !.events = @ + 1]
    /\ UNCHANGED <<now, cb, calls, streak, rh, ordVars, pub, msgs, invVars, ntfVars>>

\* a reconnect timer fires: connect() inside try/catch, its failure logged
MQReconnectFires(k, outcome) ==
    /\ mq.timers[k] > 0
    /\ LET m == [mq EXCEPT !.timers[k] = @ - 1] IN
       CASE outcome = "ok" ->
               /\ mq' = connectOk(m)
               /\ channel' = TRUE
         [] outcome = "connect_fails" ->
               /\ mq' = m
               /\ UNCHANGED channel
         [] outcome = "createChannel_fails" ->
               /\ mq' = [m EXCEPT !.connection = TRUE]
               /\ UNCHANGED channel
         [] OTHER ->
               /\ mq' = [m EXCEPT !.connection = TRUE, !.consuming = FALSE]
               /\ channel' = TRUE
    /\ UNCHANGED <<now, cb, calls, streak, rh, orders, reqs, pub, msgs, invVars, ntfVars>>

\* close() up to its first await
MQClose ==
    /\ mq.close.pc \in {"idle", "done"}
    /\ LET c == [IdleClose EXCEPT !.handling =
                     {m \in DOMAIN msgs : msgs[m].st = "handling"}] IN
       mq' = [mq EXCEPT !.close =
          IF channel THEN [c EXCEPT !.pc = "channel.close"]
          ELSE IF mq.connection
          THEN [c EXCEPT !.pc = "connection.close",
                         !.connectionCloseAttempted = TRUE]
          ELSE [c EXCEPT !.pc = "done", !.result = "returned"]]
    /\ UNCHANGED <<now, cb, calls, streak, rh, ordVars, pub, msgs, invVars, ntfVars>>

\* 'await this.channel.close()' resolves: this.channel = null, then the
\* connection's turn
MQChannelCloseResolves ==
    /\ mq.close.pc = "channel.close"
    /\ channel' = FALSE
    /\ mq' = [mq EXCEPT !.consuming = FALSE, !.close =
          IF mq.connection
          THEN [@ EXCEPT !.pc = "connection.close", !.connectionCloseAttempted = TRUE]
          ELSE [@ EXCEPT !.pc = "done", !.result = "returned"]]
    /\ UNCHANGED <<now, cb, calls, streak, rh, orders, reqs, pub, msgs, invVars, ntfVars>>

\* 'await this.channel.close()' rejects: the catch block logs, close() returns
MQChannelCloseRejects ==
    /\ mq.close.pc = "channel.close"
    /\ mq' = [mq EXCEPT !.close =
          [@ EXCEPT !.pc = "done", !.channelCloseFailed = TRUE, !.result = "returned"]]
    /\ UNCHANGED <<now, cb, calls, streak, rh, ordVars, pub, msgs, invVars, ntfVars>>

\* 'await this.connection.close()' resolves: this.connection = null
MQConnectionCloseResolves ==
    /\ mq.close.pc = "connection.close"
    /\ mq' = [mq EXCEPT !.connection = FALSE,
                        !.close = [@ EXCEPT !.pc = "done", !.result = "returned"]]
    /\ UNCHANGED <<now, cb, calls, streak, rh, ordVars, pub, msgs, invVars, ntfVars>>

\* 'await this.connection.close()' rejects: the catch block logs
MQConnectionCloseRejects ==
    /\ mq.close.pc = "connection.close"
    /\ mq' = [mq EXCEPT !.close = [@ EXCEPT !.pc = "done", !.result = "returned"]]
    /\ UNCHANGED <<now, cb, calls, streak, rh, ordVars, pub, msgs, invVars, ntfVars>>

-----------------------------------------------------------------------------
(* MessageQueueManager.publishEvent, called on the manager directly        *)

\* n: publishEvent calls so far.  result: how the last one ended.  called:
\* it called channel.publish.  probe: it found the breaker OPEN and was let
\* through.  threw: the calls in a row, up to the last one, whose
\* channel.publish threw.  While the breaker has not been CLOSED again:
\* afterThrows, it opened at the third or a later throw of channel.publish
\* in a row; rejected, a call has been rejected by it since.
PubNone ==
    [n |-> 0, result |-> "none", called |-> FALSE, probe |-> FALSE,
     threw |-> 0, afterThrows |-> FALSE, rejected |-> FALSE]

publishEventUnwrapped(s, ch, t, outcome) ==
    IF ~ch
    THEN [state |-> s, result |-> "channel_not_initialized", called |-> FALSE]
    ELSE IF outcome = "throw"
    THEN [state |-> s, result |-> "publish_threw", called |-> TRUE]
    ELSE [state |-> s, result |-> outcome, called |-> TRUE]

publishEventNoChannelCheck(s, ch, t, outcome) ==
    LET e == executeEnter(s, t) IN
    IF ~e.invoke
    THEN [state |-> e.state, result |-> "circuit_open", called |-> FALSE]
    ELSE IF ~ch \/ outcome = "throw"
    THEN [state |-> onFailure(e.state, t), result |-> "publish_threw", called |-> TRUE]
    ELSE [state |-> onSuccess(e.state), result |-> outcome, called |-> TRUE]

\* publishEvent(event) with the breaker in state s, this.channel !== null
\* being ch, at time t, channel.publish doing outcome: the breaker's state
\* afterwards, how the call ends, and whether channel.publish was called.
\* The wrapped operation has no await in it, so the call runs from the OPEN
\* check to onSuccess/onFailure with the result the operation had at once.
publishEvent(s, ch, t, outcome) ==
    LET e == executeEnter(s, t) IN
    IF ~e.invoke
    THEN [state |-> e.state, result |-> "circuit_open", called |-> FALSE]
    ELSE IF ~ch
    THEN [state |-> onFailure(e.state, t), result |-> "channel_not_initialized",
          called |-> FALSE]
    ELSE IF outcome = "throw"
    THEN [state |-> onFailure(e.state, t), result |-> "publish_threw", called |-> TRUE]
    ELSE [state |-> onSuccess(e.state), result |-> outcome, called |-> TRUE]

\* a publishEvent call by the service
MQPublishEvent(outcome) ==
    /\ pub.n < MaxPublishCalls
    /\ LET p == publishEvent(cb, channel, now, outcome) IN
       /\ cb' = p.state
       /\ pub' = [n |-> pub.n + 1,
                  result |-> p.result,
                  called |-> p.called,
                  probe |-> (cb.status = "OPEN" /\ p.result # "circuit_open"),
                  threw |-> IF p.result = "publish_threw" THEN pub.threw + 1 ELSE 0,
                  afterThrows |-> IF cb.status = "OPEN" THEN pub.afterThrows
                                  ELSE (p.state.status = "OPEN"
                                        /\ p.result = "publish_threw"
                                        /\ pub.threw + 1 >= 3),
                  rejected |-> IF p.result = "circuit_open" THEN TRUE
                               ELSE IF cb.status = "OPEN" THEN pub.rejected
                               ELSE FALSE]
       /\ streak' = IF p.result = "circuit_open" THEN streak
                    ELSE IF p.result \in {"true", "false"} THEN 0
                    ELSE streak + 1
    /\ UNCHANGED <<now, calls, rh, ordVars, mq, msgs, invVars, ntfVars>>

\* PubStep ms pass
PubTick ==
    /\ now + PubStep <= PubMaxNow
    /\ now' = now + PubStep
    /\ UNCHANGED <<cb, calls, streak, rh, ordVars, mqVars, invVars, ntfVars>>

-----------------------------------------------------------------------------
(* MessageQueueManager.consumeEvents: the consumer callback                *)

Msgs == 1..MaxMessages

\* What a message is to its consumer: its body parses and the handler can
\* process it ("ok"); its body is not JSON ("badjson"); or its body parses and
\* the handler rejects it on every delivery with an Error that carries no
\* 'validation' marker ("failing").
MsgKinds == {"ok", "badjson", "failing"}

\* What a handler rejects with: an Error or another value, its message (or
\* the value) containing 'validation' or not.
HandlerErrors == {[isError |-> i, marker |-> k] : i \in BOOLEAN, k \in BOOLEAN}

PlainError == [isError |-> TRUE, marker |-> FALSE]

\* A message in the queue.  st: "queued", "delivered" (sent to the consumer,
\* its callback not yet run), "handling" (the handler running), "acked",
\* "rejected" (nacked without requeue: the broker drops or dead-letters it),
\* "unsettled" (the callback ended with neither).
\* The other fields are the history of its last delivery.
NewMsg(kind) ==
    [kind |-> kind, st |-> "queued", redelivered |-> FALSE, settled |-> "none",
     err |-> PlainError, ack |-> FALSE, nack |-> FALSE, requeue |-> FALSE]

shouldRequeueAlways(err) == TRUE

\* !(error instanceof Error && error.message.includes('validation'))
shouldRequeue(err) == ~(err.isError /\ err.marker)

\* this.channel?.ack(message)
ack(msg, ch) ==
    IF ch THEN [msg EXCEPT !.st = "acked", !.ack = TRUE]
    ELSE [msg EXCEPT !.st = "unsettled"]

\* the catch block: this.channel?.nack(message, false, shouldRequeue)
nack(msg, ch, err) ==
    IF ch
    THEN [msg EXCEPT !.st = IF shouldRequeue(err) THEN "queued" ELSE "rejected",
                     !.redelivered = shouldRequeue(err),
                     !.nack = TRUE, !.requeue = shouldRequeue(err), !.err = err]
    ELSE [msg EXCEPT !.st = "unsettled", !.err = err]

\* consumeEvents(handler): channel.consume registers the callback.  Without
\* a channel it throws and changes nothing.
MQConsumeEvents ==
    /\ channel
    /\ ~mq.consuming
    /\ mq' = [mq EXCEPT !.consuming = TRUE]
    /\ UNCHANGED <<now, cb, calls, streak, rh, ordVars, pub, msgs, invVars, ntfVars>>

\* The broker sends m, which is in the queue, to the consumer.
BrokerDeliver(m) ==
    /\ mq.consuming
    /\ channel
    /\ msgs[m].st = "queued"
    /\ msgs' = [msgs EXCEPT ![m] =
          [@ EXCEPT !.st = "delivered", !.settled = "none", !.err = PlainError,
                    !.ack = FALSE, !.nack = FALSE, !.requeue = FALSE]]
    /\ UNCHANGED <<now, cb, calls, streak, rh, ordVars, mq, pub, invVars, ntfVars>>

\* The callback runs on m up to 'await handler(event, message)': JSON.parse,
\* and on its SyntaxError (an Error, its message without the marker) the
\* catch block; otherwise the handler is invoked.
MQCallback(m) ==
    /\ msgs[m].st = "delivered"
    /\ msgs' = [msgs EXCEPT ![m] =
          IF @.kind = "badjson"
          THEN [nack(@, channel, PlainError) EXCEPT !.settled = "parse_error"]
          ELSE [@ EXCEPT !.st = "handling"]]
    /\ UNCHANGED <<now, cb, calls, streak, rh, ordVars, mq, pub, invVars, ntfVars>>

\* 'await handler(event, message)' resolves
HandlerResolves(m) ==
    /\ msgs[m].st = "handling"
    /\ msgs[m].kind = "ok"
    /\ msgs' = [msgs EXCEPT ![m] = [ack(@, channel) EXCEPT !.settled = "resolved"]]
    /\ UNCHANGED <<now, cb, calls, streak, rh, ordVars, mq, pub, invVars, ntfVars>>

\* 'await handler(event, message)' rejects with err
HandlerRejects(m, err) ==
    /\ msgs[m].st = "handling"
    /\ msgs[m].kind = "failing" => err = PlainError
    /\ msgs' = [msgs EXCEPT ![m] = [nack(@, channel, err) EXCEPT !.settled = "rejected"]]
    /\ UNCHANGED <<now, cb, calls, streak, rh, ordVars, mq, pub, invVars, ntfVars>>

-----------------------------------------------------------------------------
(* Product model and InventoryService                                      *)

lowStockThreshold == 10

ProductIds == {"p1"}
InvOrderIds == {"A", "B"}
InvCalls == 1..MaxInvCalls

\* The two Product models of the repository: availableQuantity a virtual
\* only, or a stored field beside the virtual, recomputed before every save.
Variants == {"virtual", "stored"}

\* quantities reserveInventory / releaseInventory are called with
Quantities == 0..MaxQty

\* stock quantities createProduct / updateProductStock are called with
StockArgs == (0 - 1)..MaxStock

\* released (history): per order, the quantity of the release written for it
\* since a reservation was last written for it, -1 when there has been none
NoProduct ==
    [exists |-> FALSE, isActive |-> FALSE, stockQuantity |-> 0,
     reservedQuantity |-> 0, availableQuantity |-> 0, reservations |-> <<>>,
     released |-> [o \in InvOrderIds |-> 0 - 1]]

computeAvailableNoFloor(stock, reserved) == stock - reserved

\* Math.max(0, this.stockQuantity - this.reservedQuantity)
computeAvailable(stock, reserved) == Max(0, stock - reserved)

\* product.availableQuantity: the virtual's getter, or the stored field
availableQuantity(variant, d) ==
    IF variant = "virtual"
    THEN computeAvailable(d.stockQuantity, d.reservedQuantity)
    ELSE d.availableQuantity

\* what the methods assign to this.availableQuantity (stored variant only)
recompute(variant, d) ==
    IF variant = "virtual" THEN d
    ELSE [d EXCEPT !.availableQuantity =
              computeAvailable(d.stockQuantity, d.reservedQuantity)]

\* ProductSchema.pre('save') of the stored variant
preSave(variant, d) == recompute(variant, d)

\* the schema's validators: min 0 on the three quantities
validates(variant, d) ==
    /\ d.stockQuantity >= 0
    /\ d.reservedQuantity >= 0
    /\ variant = "stored" => d.availableQuantity >= 0

\* reservations.filter(res => res.orderId !== orderId)
RECURSIVE withoutOrder(_, _)
withoutOrder(rs, orderId) ==
    IF Len(rs) = 0 THEN <<>>
    ELSE IF Head(rs).orderId = orderId THEN withoutOrder(Tail(rs), orderId)
    ELSE <<Head(rs)>> \o withoutOrder(Tail(rs), orderId)

ProductReserveInventoryUnchecked(variant, d, quantity, orderId) ==
    [ok |-> TRUE,
     doc |-> recompute(variant,
               [d EXCEPT !.reservedQuantity = @ + quantity,
                         !.reservations = Append(@, [orderId |-> orderId,
                                                     quantity |-> quantity])])]

\* ProductSchema.methods.reserveInventory up to its save(): ok = FALSE is
\* 'return false'
ProductReserveInventory(variant, d, quantity, orderId) ==
    IF availableQuantity(variant, d) < quantity
    THEN [ok |-> FALSE, doc |-> d]
    ELSE [ok |-> TRUE,
          doc |-> recompute(variant,
                    [d EXCEPT !.reservedQuantity = @ + quantity,
                              !.reservations = Append(@, [orderId |-> orderId,
                                                          quantity |-> quantity])])]

\* ProductSchema.methods.releaseInventory up to its save()
ProductReleaseInventory(variant, d, quantity, orderId) ==
    recompute(variant,
        [d EXCEPT !.reservedQuantity = Max(0, @ - quantity),
                  !.reservations = withoutOrder(@, orderId)])

\* ProductSchema.methods.updateStock up to its save()
ProductUpdateStock(variant, d, newQuantity) ==
    recompute(variant, [d EXCEPT !.stockQuantity = Max(0, newQuantity)])

\* createRetryHandler({ maxAttempts: 3, backoffMs: 1000 })
InvRetryConfig ==
    [maxAttempts |-> 3, backoffMs |-> 1000,
     maxBackoffMs |-> DefaultMaxBackoffMs, jitter |-> TRUE]

\* A call of the inventory service.  doc: the document it loaded or built.
\* todo: the events it has still to publish after the current one (evType).
\* attempt, handed: of the current event, the publish attempts and how many
\* of them the channel took.
IdleInv ==
    [op |-> "none", pc |-> "idle", productId |-> "none", quantity |-> 0,
     orderId |-> "none", doc |-> NoProduct,
     result |-> "none", todo |-> <<>>, evType |-> "none", attempt |-> 0,
     handed |-> 0]

InvFree(c) == invc[c].pc = "idle"

\* createProduct up to 'await product.save()': the SKU check (a product keeps
\* its SKU, so the SKU is taken exactly when the product exists), new Product
\* with reservedQuantity 0 and availableQuantity stockQuantity
InvCreateProduct(c, p, stockQuantity) ==
    /\ InvFree(c)
    /\ LET q == [IdleInv EXCEPT !.op = "createProduct", !.productId = p,
                                !.quantity = stockQuantity] IN
       invc' = [invc EXCEPT ![c] =
          IF products.docs[p].exists
          THEN [q EXCEPT !.pc = "done", !.result = "sku_exists"]
          ELSE [q EXCEPT !.pc = "save",
                         !.doc = [exists |-> TRUE, isActive |-> TRUE,
                                  stockQuantity |-> stockQuantity,
                                  reservedQuantity |-> 0,
                                  availableQuantity |->
                                      IF products.variant = "stored"
                                      THEN stockQuantity ELSE 0,
                                  reservations |-> <<>>,
                                  released |-> [o \in InvOrderIds |-> 0 - 1]]]]
    /\ UNCHANGED <<now, cb, calls, streak, rh, ordVars, mqVars, products, proc, ntfVars>>

\* updateProductStock (no metadata given) up to the save() of updateStock
InvUpdateProductStock(c, p, newQuantity) ==
    /\ InvFree(c)
    /\ LET q == [IdleInv EXCEPT !.op = "updateProductStock", !.productId = p,
                                !.quantity = newQuantity] IN
       invc' = [invc EXCEPT ![c] =
          IF ~products.docs[p].exists
          THEN [q EXCEPT !.pc = "done", !.result = "not_found"]
          ELSE [q EXCEPT !.pc = "save",
                         !.doc = ProductUpdateStock(products.variant,
                                                    products.docs[p], newQuantity)]]
    /\ UNCHANGED <<now, cb, calls, streak, rh, ordVars, mqVars, products, proc, ntfVars>>

\* reserveInventory up to the save() of the model's reserveInventory
InvReserveInventory(c, p, quantity, orderId) ==
    /\ InvFree(c)
    /\ Len(products.docs[p].reservations) < MaxReservations
    /\ LET q == [IdleInv EXCEPT !.op = "reserveInventory", !.productId = p,
                                !.quantity = quantity, !.orderId = orderId]
           r == ProductReserveInventory(products.variant, products.docs[p],
                                        quantity, orderId)
       IN
       invc' = [invc EXCEPT ![c] =
          IF ~products.docs[p].exists
          THEN [q EXCEPT !.pc = "done", !.result = "not_found"]
          ELSE IF ~products.docs[p].isActive
          THEN [q EXCEPT !.pc = "done", !.result = "not_active"]
          ELSE IF ~r.ok
          THEN [q EXCEPT !.pc = "done", !.result = "false"]
          ELSE [q EXCEPT !.pc = "save", !.doc = r.doc]]
    /\ UNCHANGED <<now, cb, calls, streak, rh, ordVars, mqVars, products, proc, ntfVars>>

\* releaseInventory up to the save() of the model's releaseInventory
InvReleaseInventory(c, p, quantity, orderId) ==
    /\ InvFree(c)
    /\ LET q == [IdleInv EXCEPT !.op = "releaseInventory", !.productId = p,
                                !.quantity = quantity, !.orderId = orderId] IN
       invc' = [invc EXCEPT ![c] =
          IF ~products.docs[p].exists
          THEN [q EXCEPT !.pc = "done", !.result = "not_found"]
          ELSE [q EXCEPT !.pc = "save",
                         !.doc = ProductReleaseInventory(products.variant,
                                     products.docs[p], quantity, orderId)]]
    /\ UNCHANGED <<now, cb, calls, streak, rh, ordVars, mqVars, products, proc, ntfVars>>

\* the events a call publishes once its save() has returned
eventsOf(op, variant, d) ==
    CASE op = "createProduct" -> <<"inventory.updated">>
      [] op = "updateProductStock" ->
            IF availableQuantity(variant, d) <= lowStockThreshold
            THEN <<"inventory.updated", "inventory.low">>
            ELSE <<"inventory.updated">>
      [] op = "reserveInventory" -> <<"inventory.reserved">>
      [] OTHER -> <<"inventory.released">>

writtenNewOnly(op, stored, d) == IF op = "createProduct" THEN d ELSE stored

\* what save() writes: a new document whole, a loaded one by the paths the
\* call has modified
written(op, stored, d) ==
    CASE op = "createProduct" -> d
      [] op = "updateProductStock" ->
            [stored EXCEPT !.stockQuantity = d.stockQuantity,
                           !.availableQuantity = d.availableQuantity]
      [] OTHER ->
            [stored EXCEPT !.reservedQuantity = d.reservedQuantity,
                           !.availableQuantity = d.availableQuantity,
                           !.reservations = d.reservations]

\* save(): validation, the pre-save hook, the write; then the first event's
\* publishInventoryEvent enters retryHandler.execute
InvSave(c) ==
    /\ invc[c].pc = "save"
    /\ LET q == invc[c]
           d == preSave(products.variant, q.doc)
           evs == eventsOf(q.op, products.variant, d)
       IN
       IF ~validates(products.variant, q.doc)
       THEN /\ invc' = [invc EXCEPT ![c] =
                  [q EXCEPT !.pc = "done", !.result = "validation_error"]]
            /\ UNCHANGED products
       ELSE /\ products' = [products EXCEPT !.docs[q.productId] =
                  [written(q.op, @, d) EXCEPT !.released =
                      CASE q.op = "releaseInventory" ->
                              [@ EXCEPT ![q.orderId] = q.quantity]
                        [] q.op = "reserveInventory" ->
                              [@ EXCEPT ![q.orderId] = 0 - 1]
                        [] OTHER -> @]]
            /\ invc' = [invc EXCEPT ![c] =
                  [q EXCEPT !.pc = "publish", !.doc = d,
                            !.result = IF q.op = "reserveInventory" THEN "true" ELSE "ok",
                            !.evType = Head(evs), !.todo = Tail(evs),
                            !.attempt = 1, !.handed = 0]]
    /\ UNCHANGED <<now, cb, calls, streak, rh, ordVars, mqVars, proc, ntfVars>>

\* the current event is done with (published, or given up and logged): the
\* next event, or the call's return
eventDone(q, handedNow) ==
    IF Len(q.todo) = 0
    THEN [q EXCEPT !.pc = "done", !.handed = @ + handedNow]
    ELSE [q EXCEPT !.pc = "publish", !.evType = Head(q.todo),
                   !.todo = Tail(q.todo), !.attempt = 1, !.handed = 0]

\* One attempt of the retried operation: messageQueue.publishEvent(event),
\* 'if (!success) throw', and the retry handler's catch block with the
\* sleep(delay) it ends in.  The sleep is no step of its own: nothing the
\* call reads changes while it sleeps.
InvPublish(c, outcome) ==
    /\ invc[c].pc = "publish"
    /\ LET q == invc[c]
           e == publishEvent(cb, channel, now, outcome)
           took == IF e.result \in {"true", "false"} THEN 1 ELSE 0
       IN
       /\ cb' = e.state
       /\ invc' = [invc EXCEPT ![c] =
             IF e.result = "true" THEN eventDone(q, took)
             ELSE IF isLastAttempt(InvRetryConfig, q.attempt) THEN eventDone(q, took)
             ELSE [q EXCEPT !.attempt = @ + 1, !.handed = @ + took]]
    /\ UNCHANGED <<now, calls, streak, rh, ordVars, mqVars, products, proc, ntfVars>>

\* the call returns (or throws) to its caller
InvReturn(c) ==
    /\ invc[c].pc = "done"
    /\ invc' = [invc EXCEPT ![c] = IdleInv]
    /\ UNCHANGED <<now, cb, calls, streak, rh, ordVars, mqVars, products, proc, ntfVars>>

\* the products and items of the order events the inventory service handles
EventProductIds == {"p1", "p2", "p3"}

EventItemLists ==
    {<<[productId |-> "p1", quantity |-> 1], [productId |-> "p2", quantity |-> 1],
       [productId |-> "p3", quantity |-> 1]>>,
     <<[productId |-> "p2", quantity |-> 1], [productId |-> "p1", quantity |-> MaxQty]>>,
     <<[productId |-> "p3", quantity |-> 1]>>}

\* A processOrderCreated / processOrderCancelled call: the items of the
\* event, and k, the item the loop is at.  While pc is "loop" the first call
\* slot holds the reserveInventory / releaseInventory call for item k.
IdleProc ==
    [op |-> "none", pc |-> "idle", orderId |-> "none", items |-> <<>>, k |-> 0,
     result |-> "none"]

\* processOrderCreated / processOrderCancelled up to the first await
InvProcessOrder(op, items, orderId) ==
    /\ proc.pc = "idle"
    /\ InvFree(1)
    /\ proc' = [IdleProc EXCEPT !.op = op, !.orderId = orderId, !.items = items,
                                !.k = IF Len(items) = 0 THEN 0 ELSE 1,
                                !.pc = IF Len(items) = 0 THEN "done" ELSE "loop",
                                !.result = IF Len(items) = 0 THEN "ok" ELSE "none"]
    /\ UNCHANGED <<now, cb, calls, streak, rh, ordVars, mqVars, products, invc, ntfVars>>

\* the loop calls this.reserveInventory(item.productId, item.quantity, orderId)
ProcCallReserve ==
    /\ proc.op = "processOrderCreated"
    /\ proc.pc = "loop"
    /\ InvReserveInventory(1, proc.items[proc.k].productId,
                           proc.items[proc.k].quantity, proc.orderId)

\* the loop calls this.releaseInventory(item.productId, item.quantity, orderId)
ProcCallRelease ==
    /\ proc.op = "processOrderCancelled"
    /\ proc.pc = "loop"
    /\ InvReleaseInventory(1, proc.items[proc.k].productId,
                           proc.items[proc.k].quantity, proc.orderId)

afterItemBestEffort(q, result) ==
    IF q.k = Len(q.items) THEN [q EXCEPT !.pc = "done", !.result = "ok"]
    ELSE [q EXCEPT !.k = @ + 1]

\* what the loop does with the outcome of the call for item k: on true (or
\* the return of releaseInventory) the next item, or the end of the loop; on
\* false 'throw new Error(Insufficient inventory ...)'; a throw of the call
\* itself leaves the loop; either goes through the catch block, which
\* rethrows
afterItem(q, result) ==
    IF result \in {"true", "ok"}
    THEN IF q.k = Len(q.items) THEN [q EXCEPT !.pc = "done", !.result = "ok"]
         ELSE [q EXCEPT !.k = @ + 1]
    ELSE IF result = "false" THEN [q EXCEPT !.pc = "done", !.result = "insufficient"]
    ELSE [q EXCEPT !.pc = "done", !.result = "threw"]

\* the awaited call for item k returns or throws into the loop
ProcResume ==
    /\ proc.pc = "loop"
    /\ invc[1].pc = "done"
    /\ proc' = afterItem(proc, invc[1].result)
    /\ invc' = [invc EXCEPT ![1] = IdleInv]
    /\ UNCHANGED <<now, cb, calls, streak, rh, ordVars, mqVars, products, ntfVars>>

\* the call returns (or throws) to the consumer's handler
ProcReturn ==
    /\ proc.pc = "done"
    /\ proc' = IdleProc
    /\ UNCHANGED <<now, cb, calls, streak, rh, ordVars, mqVars, products, invc, ntfVars>>

-----------------------------------------------------------------------------
(* NotificationService                                                     *)

NotifIds == 1..MaxNotifs
NtfCalls == 1..MaxNtfCalls

\* retryNotification: 'if (notification.attempts >= 3)'
maxRetryAttempts == 3

\* A notification document.  status "none": no such document.
NoNotif == [status |-> "none", attempts |-> 0]

\* A call of the notification service.  doc: the document it built or
\* loaded.  started (history): the call has started an external delivery.
IdleNtf ==
    [op |-> "none", pc |-> "idle", id |-> 0, doc |-> NoNotif,
     result |-> "none", started |-> FALSE]

NtfFree(c) == notc[c].pc = "idle"

\* ids no stored notification and no notification being created has
FreshNotifIds ==
    {i \in NotifIds :
        /\ notifs[i] = NoNotif
        /\ \A d \in DOMAIN notc : ~(notc[d].pc = "save" /\ notc[d].id = i)}

\* sendNotification up to 'await notification.save()': new Notification with
\* status pending and attempts 0
NtfSendNotification(c) ==
    /\ NtfFree(c)
    /\ FreshNotifIds # {}
    /\ LET i == CHOOSE x \in FreshNotifIds : \A y \in FreshNotifIds : x <= y IN
       notc' = [notc EXCEPT ![c] =
          [IdleNtf EXCEPT !.op = "sendNotification", !.pc = "save", !.id = i,
                          !.doc = [status |-> "pending", attempts |-> 0]]]
    /\ UNCHANGED <<now, cb, calls, streak, rh, ordVars, mqVars, invVars, notifs, wire>>

\* 'await notification.save()' of sendNotification: the document is written
NtfSave(c) ==
    /\ notc[c].pc = "save"
    /\ notifs' = [notifs EXCEPT ![notc[c].id] = notc[c].doc]
    /\ notc' = [notc EXCEPT ![c].pc = "publish"]
    /\ UNCHANGED <<now, cb, calls, streak, rh, ordVars, mqVars, invVars, wire>>

\* 'await this.messageQueue.publishEvent(notificationEvent)': one call, not
\* retried, its boolean not looked at; when it rejects, the catch block of
\* sendNotification logs and rethrows
NtfPublish(c, outcome) ==
    /\ notc[c].pc = "publish"
    /\ LET e == publishEvent(cb, channel, now, outcome) IN
       /\ cb' = e.state
       /\ notc' = [notc EXCEPT ![c] =
             IF e.result \in {"true", "false"}
             THEN [@ EXCEPT !.pc = "deliver", !.started = TRUE]
             ELSE [@ EXCEPT !.pc = "done", !.result = e.result]]
    /\ UNCHANGED <<now, calls, streak, rh, ordVars, mqVars, invVars, notifs, wire>>

\* processNotification from the return of sendExternalNotification (which
\* catches what it throws) up to 'await notification.save()'
processNotification(d, success) ==
    IF success THEN [d EXCEPT !.status = "sent"]
    ELSE [d EXCEPT !.status = "failed", !.attempts = @ + 1]

\* sendExternalNotification returns success
NtfDelivered(c, success) ==
    /\ notc[c].pc = "deliver"
    /\ notc' = [notc EXCEPT ![c] =
          [@ EXCEPT !.pc = "process.save",
                    !.doc = processNotification(@, success)]]
    /\ UNCHANGED <<now, cb, calls, streak, rh, ordVars, mqVars, invVars, notifs, wire>>

\* 'await notification.save()' in the try block of processNotification
\* resolves: the paths it set are
\* written (status; attempts when the delivery failed); the caller returns
\* the notification
NtfProcessSave(c) ==
    /\ notc[c].pc = "process.save"
    /\ notifs' = [notifs EXCEPT ![notc[c].id] =
          IF notc[c].doc.status = "sent"
          THEN [@ EXCEPT !.status = "sent"]
          ELSE [@ EXCEPT !.status = "failed", !.attempts = notc[c].doc.attempts]]
    /\ notc' = [notc EXCEPT ![c] = [@ EXCEPT !.pc = "done", !.result = "ok"]]
    /\ UNCHANGED <<now, cb, calls, streak, rh, ordVars, mqVars, invVars, wire>>

\* the two checks of retryNotification
canRetry(d) == d.status = "failed" /\ ~(d.attempts >= maxRetryAttempts)

\* retryNotification up to 'await notification.save()': findById and the
\* checks
NtfRetryNotification(c, i) ==
    /\ NtfFree(c)
    /\ LET q == [IdleNtf EXCEPT !.op = "retryNotification", !.id = i,
                                !.doc = notifs[i]] IN
       notc' = [notc EXCEPT ![c] =
          IF notifs[i] = NoNotif
          THEN [q EXCEPT !.pc = "done", !.result = "null"]
          ELSE IF canRetry(notifs[i])
          THEN [q EXCEPT !.pc = "retry.save", !.doc.status = "pending"]
          ELSE IF notifs[i].status # "failed"
          THEN [q EXCEPT !.pc = "done", !.result = "only_failed"]
          ELSE [q EXCEPT !.pc = "done", !.result = "max_exceeded"]]
    /\ UNCHANGED <<now, cb, calls, streak, rh, ordVars, mqVars, invVars, notifs, wire>>

\* 'await notification.save()' of retryNotification: status pending is
\* written, then processNotification starts the delivery
NtfRetrySave(c) ==
    /\ notc[c].pc = "retry.save"
    /\ notifs' = [notifs EXCEPT ![notc[c].id].status = "pending"]
    /\ notc' = [notc EXCEPT ![c] = [@ EXCEPT !.pc = "deliver", !.started = TRUE]]
    /\ UNCHANGED <<now, cb, calls, streak, rh, ordVars, mqVars, invVars, wire>>

\* 'await notification.save()' of sendNotification or of retryNotification
\* rejects: the method's catch block logs and rethrows
NtfSaveRejects(c) ==
    /\ notc[c].pc \in {"save", "retry.save"}
    /\ notc' = [notc EXCEPT ![c] = [@ EXCEPT !.pc = "done", !.result = "save_failed"]]
    /\ UNCHANGED <<now, cb, calls, streak, rh, ordVars, mqVars, invVars, notifs, wire>>

\* 'await notification.save()' in the try block of processNotification
\* rejects: the catch block sets status failed, increments attempts and
\* saves again
NtfProcessSaveRejects(c) ==
    /\ notc[c].pc = "process.save"
    /\ notc' = [notc EXCEPT ![c] =
          [@ EXCEPT !.pc = "catch.save",
                    !.doc = [@ EXCEPT !.status = "failed", !.attempts = @ + 1]]]
    /\ UNCHANGED <<now, cb, calls, streak, rh, ordVars, mqVars, invVars, notifs, wire>>

\* 'await notification.save()' of the catch block resolves:
\* processNotification returns false and its caller returns the notification
NtfCatchSave(c) ==
    /\ notc[c].pc = "catch.save"
    /\ notifs' = [notifs EXCEPT ![notc[c].id] =
          [@ EXCEPT !.status = "failed", !.attempts = notc[c].doc.attempts]]
    /\ notc' = [notc EXCEPT ![c] = [@ EXCEPT !.pc = "done", !.result = "ok"]]
    /\ UNCHANGED <<now, cb, calls, streak, rh, ordVars, mqVars, invVars, wire>>

\* 'await notification.save()' of the catch block rejects: processNotification
\* rejects, and the catch block of its caller logs and rethrows
NtfCatchSaveRejects(c) ==
    /\ notc[c].pc = "catch.save"
    /\ notc' = [notc EXCEPT ![c] = [@ EXCEPT !.pc = "done", !.result = "save_failed"]]
    /\ UNCHANGED <<now, cb, calls, streak, rh, ordVars, mqVars, invVars, notifs, wire>>

\* the call returns (or throws) to its caller
NtfReturn(c) ==
    /\ notc[c].pc = "done"
    /\ notc' = [notc EXCEPT ![c] = IdleNtf]
    /\ UNCHANGED <<now, cb, calls, streak, rh, ordVars, mqVars, invVars, notifs, wire>>

-----------------------------------------------------------------------------
(* The event envelope from publishEvent to the handler                     *)

\* JavaScript values of an envelope's properties: a string, a number (by its
\* numeral), a Date (by its ISO string), undefined, and "absent" for a
\* property the object does not have.
Str(x) == [k |-> "string", v |-> x]
Num(x) == [k |-> "number", v |-> x]
DateOf(x) == [k |-> "date", v |-> x]
Undefined == [k |-> "undefined", v |-> ""]
Absent == [k |-> "absent", v |-> ""]

\* new Date() at the times events are built
Instants == {"2026-01-01T00:00:00.000Z", "2026-01-01T00:00:00.001Z"}

\* The envelopes the services build.  data has the properties of the three
\* event families side by side, those a family does not have being absent.
\* publishOrderEvent: correlationId is the orderId, data has createdAt
OrderEnvelopes ==
    {[id |-> Str("e1"), type |-> Str(t), version |-> Str("1.0.0"),
      timestamp |-> DateOf(i), source |-> Str("order-service"),
      correlationId |-> Str("o1"), metadata |-> Absent,
      data |-> [orderId |-> Str("o1"), total |-> Num("200"), status |-> Str(st),
                createdAt |-> DateOf(c), productId |-> Absent,
                quantity |-> Absent, recipientId |-> Absent]] :
        t \in {"order.created", "order.updated", "order.cancelled"},
        i \in Instants, c \in Instants, st \in {"pending", "cancelled"}}

\* publishInventoryEvent: no correlationId, data.orderId is
\* additionalData?.orderId, undefined when no order is concerned
InventoryEnvelopes ==
    {[id |-> Str("e2"), type |-> Str(t), version |-> Str("1.0.0"),
      timestamp |-> DateOf(i), source |-> Str("inventory-service"),
      correlationId |-> Absent, metadata |-> Absent,
      data |-> [orderId |-> o, total |-> Absent, status |-> Absent,
                createdAt |-> Absent, productId |-> Str("p1"),
                quantity |-> Num(n), recipientId |-> Absent]] :
        t \in {"inventory.reserved", "inventory.released", "inventory.updated",
               "inventory.low"},
        i \in Instants, o \in {Undefined, Str("o1")}, n \in {"0", "2"}}

\* sendNotification's notification.sent (of data: recipientId and status)
NotificationEnvelopes ==
    {[id |-> Str("e3"), type |-> Str("notification.sent"), version |-> Str("1.0.0"),
      timestamp |-> DateOf(i), source |-> Str("notification-service"),
      correlationId |-> Absent, metadata |-> Absent,
      data |-> [orderId |-> Absent, total |-> Absent, status |-> Str("pending"),
                createdAt |-> Absent, productId |-> Absent,
                quantity |-> Absent, recipientId |-> Str(r)]] :
        i \in Instants, r \in {"c1", "c2"}}

Envelopes == OrderEnvelopes \cup InventoryEnvelopes \cup NotificationEnvelopes

\* JSON.stringify of one property value: a string or a finite number as
\* itself, a Date by its toJSON() as a string, an undefined property left out
toJSON(x) ==
    CASE x.k = "string" -> [k |-> "json-string", v |-> x.v]
      [] x.k = "number" -> [k |-> "json-number", v |-> x.v]
      [] x.k = "date" -> [k |-> "json-string", v |-> x.v]
      [] OTHER -> Absent

\* JSON.parse of one property value (no reviver): strings and numbers
fromJSON(j) ==
    CASE j.k = "json-string" -> Str(j.v)
      [] j.k = "json-number" -> Num(j.v)
      [] OTHER -> Absent

\* Buffer.from(JSON.stringify(event))
stringify(e) ==
    [f \in DOMAIN e |->
        IF f = "data" THEN [g \in DOMAIN e.data |-> toJSON(e.data[g])]
        ELSE toJSON(e[f])]

\* JSON.parse(message.content.toString())
parse(content) ==
    [f \in DOMAIN content |->
        IF f = "data" THEN [g \in DOMAIN content.data |-> fromJSON(content.data[g])]
        ELSE fromJSON(content[f])]

\* stage: "none", "queued" (channel.publish took the message), "delivered"
\* (the broker has routed it to the consumer's queue and sent it to the
\* callback), "handled" (the handler was invoked with event).  envelope
\* (history): what publishEvent was given.
NoWire == [stage |-> "none", envelope |-> <<>>, content |-> <<>>, event |-> <<>>]

\* publishEvent(event) through the breaker; channel.publish takes the
\* message whether it returns true or false
WirePublish(e, outcome) ==
    /\ wire.stage = "none"
    /\ LET r == publishEvent(cb, channel, now, outcome) IN
       /\ cb' = r.state
       /\ wire' = IF r.result \in {"true", "false"}
                  THEN [stage |-> "queued", envelope |-> e,
                        content |-> stringify(e), event |-> <<>>]
                  ELSE wire
    /\ UNCHANGED <<now, calls, streak, rh, ordVars, mqVars, invVars, notifs, notc>>

\* the exchange routes the message to the bound queue, and the broker sends
\* it to the consumer
WireDeliver ==
    /\ wire.stage = "queued"
    /\ mq.consuming
    /\ wire' = [wire EXCEPT !.stage = "delivered"]
    /\ UNCHANGED <<now, cb, calls, streak, rh, ordVars, mqVars, invVars, notifs, notc>>

\* the consumeEvents callback: JSON.parse, then handler(event, message)
WireCallback ==
    /\ wire.stage = "delivered"
    /\ wire' = [wire EXCEPT !.stage = "handled", !.event = parse(wire.content)]
    /\ UNCHANGED <<now, cb, calls, streak, rh, ordVars, mqVars, invVars, notifs, notc>>

-----------------------------------------------------------------------------
(* Specifications                                                          *)

CBParked == /\ cb = CircuitBreakerNew(MQBreakerThreshold, MQBreakerTimeout)
            /\ calls = [c \in Callers |-> IdleCall]
            /\ streak = 0

OrdParked == /\ channel = FALSE
             /\ orders = [o \in OrderIds |-> NoOrder]
             /\ reqs = [r \in Requests |-> IdleReq]

MQParked == /\ mq = MQNew
            /\ pub = PubNone
            /\ msgs = [m \in Msgs |-> NewMsg("ok")]

InvParked == /\ products = [variant |-> "virtual",
                            docs |-> [p \in ProductIds |-> NoProduct]]
             /\ invc = [c \in InvCalls |-> IdleInv]
             /\ proc = IdleProc

NtfParked == /\ notifs = [i \in NotifIds |-> NoNotif]
             /\ notc = [c \in NtfCalls |-> IdleNtf]
             /\ wire = NoWire

RHParked == rh = RHNew([maxAttempts |-> DefaultMaxAttempts,
                        backoffMs |-> DefaultBackoffMs,
                        maxBackoffMs |-> DefaultMaxBackoffMs,
                        jitter |-> TRUE])

\* One breaker, constructed with any threshold and timeout, and its callers.
InitBreaker ==
    /\ now = 0
    /\ cb \in {CircuitBreakerNew(th, tm) : th \in 1..MaxThreshold, tm \in 0..MaxTimeout}
    /\ calls = [c \in Callers |-> IdleCall]
    /\ streak = 0
    /\ RHParked
    /\ OrdParked
    /\ MQParked
    /\ InvParked
    /\ NtfParked

NextBreaker ==
    \/ \E c \in Callers : CBExecute(c)
    \/ \E c \in Callers : CBOperationResolves(c)
    \/ \E c \in Callers : CBOperationRejects(c)
    \/ CBTick

SpecBreaker == InitBreaker /\ [][NextBreaker]_vars

\* The same breaker with its execute calls made one at a time.
NextBreakerSeq ==
    \/ \E c \in Callers : (\A d \in Callers : ~InFlight(d)) /\ CBExecute(c)
    \/ \E c \in Callers : CBOperationResolves(c)
    \/ \E c \in Callers : CBOperationRejects(c)
    \/ CBTick

SpecBreakerSeq == InitBreaker /\ [][NextBreakerSeq]_vars

\* One retry handler, constructed with any configuration.
InitRetry ==
    /\ now = 0
    /\ CBParked
    /\ rh \in {RHNew(cfg) : cfg \in RetryConfigs}
    /\ OrdParked
    /\ MQParked
    /\ InvParked
    /\ NtfParked

NextRetry ==
    \/ RHExecute
    \/ RHOperationResolves
    \/ \E e \in Thrown, r \in Randoms : RHOperationRejects(e, r)
    \/ RHWake

SpecRetry == InitRetry /\ [][NextRetry]_vars

\* The order service over an empty collection, before the manager's
\* connect() has returned, serving one request at a time.
InitOrder ==
    /\ now = 0
    /\ cb = CircuitBreakerNew(MQBreakerThreshold, MQBreakerTimeout)
    /\ calls = [c \in Callers |-> IdleCall]
    /\ streak = 0
    /\ RHParked
    /\ OrdParked
    /\ MQParked
    /\ InvParked
    /\ NtfParked

NoRequestInFlight == \A d \in Requests : Free(d)

NextOrder ==
    \/ \E r \in Requests, items \in ItemArgs :
          NoRequestInFlight /\ OrdCreateOrder(r, items)
    \/ \E r \in Requests, o \in OrderIds, st \in Statuses :
          NoRequestInFlight /\ OrdUpdateOrderStatus(r, o, st)
    \/ \E r \in Requests, o \in OrderIds : NoRequestInFlight /\ OrdCancelOrder(r, o)
    \/ \E r \in Requests : OrdSave(r)
    \/ \E r \in Requests, outcome \in PublishOutcomes, rnd \in Randoms :
          OrdPublish(r, outcome, rnd)
    \/ \E r \in Requests : OrdWake(r)
    \/ \E r \in Requests : OrdReturn(r)
    \/ MQConnect
    \/ OrdTick

SpecOrder == InitOrder /\ [][NextOrder]_vars

\* The order service serving requests at once: each controller call runs
\* its method up to the first await, and the saves and publishes of the
\* requests in flight interleave.  The broker takes every message.
ConcRequests == 1..MaxConcRequests

\* connect() has returned
Connected == channel

InitOrderConc ==
    /\ now = 0
    /\ cb = CircuitBreakerNew(MQBreakerThreshold, MQBreakerTimeout)
    /\ calls = [c \in Callers |-> IdleCall]
    /\ streak = 0
    /\ RHParked
    /\ channel = FALSE
    /\ orders = [o \in OrderIds |-> NoOrder]
    /\ reqs = [r \in ConcRequests |-> IdleReq]
    /\ MQParked
    /\ InvParked
    /\ NtfParked

NextOrderConc ==
    \/ \E r \in ConcRequests, items \in ItemArgs : OrdCreateOrder(r, items)
    \/ \E r \in ConcRequests, o \in OrderIds, st \in Statuses :
          OrdUpdateOrderStatus(r, o, st)
    \/ \E r \in ConcRequests, o \in OrderIds : OrdCancelOrder(r, o)
    \/ \E r \in ConcRequests : OrdSave(r)
    \/ \E r \in ConcRequests, rnd \in Randoms : Connected /\ OrdPublish(r, "true", rnd)
    \/ \E r \in ConcRequests : OrdReturn(r)
    \/ MQConnect

SpecOrderConc == InitOrderConc /\ [][NextOrderConc]_vars

\* One manager from its constructor on: connect, the connection's events,
\* the reconnect timers.
InitConn ==
    /\ now = 0
    /\ CBParked
    /\ RHParked
    /\ OrdParked
    /\ MQParked
    /\ InvParked
    /\ NtfParked

NextConn ==
    \/ MQConnect
    \/ MQConnectionError
    \/ MQConnectionClose
    \/ \E k \in 1..maxReconnectAttempts, outcome \in ConnectOutcomes :
          MQReconnectFires(k, outcome)

SpecConn == InitConn /\ [][NextConn]_vars

\* The same where every reconnect timer that was set fires.  The connection's
\* events are the broker's doing and under no obligation to occur.
FairSpecConn ==
    /\ SpecConn
    /\ \A k \in 1..maxReconnectAttempts :
          WF_vars(\E outcome \in ConnectOutcomes : MQReconnectFires(k, outcome))

\* One manager and the publishEvent calls made on it, one after the other,
\* before connect(), while connected, and after close().
NextPublish ==
    \/ MQConnect
    \/ MQClose
    \/ MQChannelCloseResolves
    \/ MQChannelCloseRejects
    \/ MQConnectionCloseResolves
    \/ MQConnectionCloseRejects
    \/ \E outcome \in PublishOutcomes : MQPublishEvent(outcome)
    \/ PubTick

SpecPublish == InitConn /\ [][NextPublish]_vars

\* One manager consuming a queue that holds messages of any kind; close() is
\* not called.
InitConsume ==
    /\ now = 0
    /\ CBParked
    /\ RHParked
    /\ OrdParked
    /\ mq = MQNew
    /\ pub = PubNone
    /\ msgs \in [Msgs -> {NewMsg(k) : k \in MsgKinds}]
    /\ InvParked
    /\ NtfParked

NextConsume ==
    \/ MQConnect
    \/ MQConsumeEvents
    \/ \E m \in Msgs : BrokerDeliver(m)
    \/ \E m \in Msgs : MQCallback(m)
    \/ \E m \in Msgs : HandlerResolves(m)
    \/ \E m \in Msgs, err \in HandlerErrors : HandlerRejects(m, err)

SpecConsume == InitConsume /\ [][NextConsume]_vars

\* The same where what can run does run: the service connects and consumes,
\* the broker delivers what is queued, a handler that was invoked settles.
FairSpecConsume ==
    /\ SpecConsume
    /\ WF_vars(MQConnect)
    /\ WF_vars(MQConsumeEvents)
    /\ \A m \in Msgs : WF_vars(BrokerDeliver(m))
    /\ \A m \in Msgs : WF_vars(MQCallback(m))
    /\ \A m \in Msgs :
          WF_vars(HandlerResolves(m) \/ \E err \in HandlerErrors : HandlerRejects(m, err))

\* The consuming manager with close() called at any time, also while
\* handlers are running.
NextConsumeClose ==
    \/ MQConnect
    \/ MQConsumeEvents
    \/ \E m \in Msgs : BrokerDeliver(m)
    \/ \E m \in Msgs : MQCallback(m)
    \/ \E m \in Msgs : HandlerResolves(m)
    \/ \E m \in Msgs, err \in HandlerErrors : HandlerRejects(m, err)
    \/ MQClose
    \/ MQChannelCloseResolves
    \/ MQChannelCloseRejects
    \/ MQConnectionCloseResolves
    \/ MQConnectionCloseRejects

SpecConsumeClose == InitConsume /\ [][NextConsumeClose]_vars

\* A service after its setupMessageQueue: the manager connected and
\* consumeEvents called, once.  Then the connection is lost and the
\* reconnect timers fire, one loss at a time, while the broker has messages
\* for the queue.
InitReconnect ==
    /\ now = 0
    /\ CBParked
    /\ RHParked
    /\ channel = TRUE
    /\ orders = [o \in OrderIds |-> NoOrder]
    /\ reqs = [r \in Requests |-> IdleReq]
    /\ mq = [connectOk(MQNew) EXCEPT !.consuming = TRUE]
    /\ pub = PubNone
    /\ msgs = [m \in Msgs |-> NewMsg("ok")]
    /\ InvParked
    /\ NtfParked

NoReconnectPending == mq.reconnectAttempts = 0

NextReconnect ==
    \/ NoReconnectPending /\ MQConnectionError
    \/ NoReconnectPending /\ MQConnectionClose
    \/ \E k \in 1..maxReconnectAttempts, outcome \in ConnectOutcomes :
          MQReconnectFires(k, outcome)
    \/ \E m \in Msgs : BrokerDeliver(m)
    \/ \E m \in Msgs : MQCallback(m)
    \/ \E m \in Msgs : HandlerResolves(m)

SpecReconnect == InitReconnect /\ [][NextReconnect]_vars

\* The inventory service over an empty collection, with either Product
\* model, serving one call at a time, all within one breaker timeout.
InitInventory ==
    /\ now = 0
    /\ CBParked
    /\ RHParked
    /\ OrdParked
    /\ MQParked
    /\ products \in {[variant |-> v, docs |-> [p \in ProductIds |-> NoProduct]] :
                        v \in Variants}
    /\ invc = [c \in InvCalls |-> IdleInv]
    /\ proc = IdleProc
    /\ NtfParked

\* One call at a time, in the first slot.
NoInvCallInFlight(c) == c = 1 /\ \A d \in InvCalls : InvFree(d)

NextInventory ==
    \/ \E c \in InvCalls, p \in ProductIds, n \in StockArgs :
          NoInvCallInFlight(c) /\ InvCreateProduct(c, p, n)
    \/ \E c \in InvCalls, p \in ProductIds, n \in StockArgs :
          NoInvCallInFlight(c) /\ InvUpdateProductStock(c, p, n)
    \/ \E c \in InvCalls, p \in ProductIds, n \in Quantities, o \in InvOrderIds :
          NoInvCallInFlight(c) /\ InvReserveInventory(c, p, n, o)
    \/ \E c \in InvCalls, p \in ProductIds, n \in Quantities, o \in InvOrderIds :
          NoInvCallInFlight(c) /\ InvReleaseInventory(c, p, n, o)
    \/ \E c \in InvCalls : InvSave(c)
    \/ \E c \in InvCalls, outcome \in PublishOutcomes : InvPublish(c, outcome)
    \/ \E c \in InvCalls : InvReturn(c)
    \/ MQConnect

SpecInventory == InitInventory /\ [][NextInventory]_vars

\* The inventory service serving reserveInventory calls at once: each call
\* runs up to its save(), and the saves, publishes and returns of the calls
\* in flight interleave.  The manager is connected, the products have been
\* created with some stock, and the broker takes every message.
ConcInvCalls == 1..MaxConcInvCalls

\* a product as createProduct has saved it
Created(variant, stockQuantity) ==
    [NoProduct EXCEPT !.exists = TRUE, !.isActive = TRUE,
                      !.stockQuantity = stockQuantity,
                      !.availableQuantity =
                          IF variant = "stored" THEN stockQuantity ELSE 0]

InitInventoryConc ==
    /\ now = 0
    /\ CBParked
    /\ RHParked
    /\ channel = TRUE
    /\ orders = [o \in OrderIds |-> NoOrder]
    /\ reqs = [r \in Requests |-> IdleReq]
    /\ mq = connectOk(MQNew)
    /\ pub = PubNone
    /\ msgs = [m \in Msgs |-> NewMsg("ok")]
    /\ products \in {[variant |-> v, docs |-> [p \in ProductIds |-> Created(v, n)]] :
                        v \in Variants, n \in 1..MaxStock}
    /\ invc = [c \in ConcInvCalls |-> IdleInv]
    /\ proc = IdleProc
    /\ NtfParked

NextInventoryConc ==
    \/ \E c \in ConcInvCalls, p \in ProductIds, n \in 1..MaxQty, o \in InvOrderIds :
          InvReserveInventory(c, p, n, o)
    \/ \E c \in ConcInvCalls : InvSave(c)
    \/ \E c \in ConcInvCalls : InvPublish(c, "true")
    \/ \E c \in ConcInvCalls : InvReturn(c)

SpecInventoryConc == InitInventoryConc /\ [][NextInventoryConc]_vars

-----------------------------------------------------------------------------
(* NotificationServiceApp: the handler given to consumeEvents              *)

\* the message whose handler is running
Handling(m) == msgs[m].st = "handling"

\* The handler starts on an order.created or order.cancelled event:
\* sendOrderConfirmation / sendOrderCancellation up to 'await
\* notification.save()', the call held in the first slot.
AppHandle(m, type) ==
    /\ Handling(m)
    /\ NtfFree(1)
    /\ FreshNotifIds # {}
    /\ LET i == CHOOSE x \in FreshNotifIds : \A y \in FreshNotifIds : x <= y IN
       notc' = [notc EXCEPT ![1] =
          [IdleNtf EXCEPT !.op = type, !.pc = "app.save", !.id = i,
                          !.doc = [status |-> "pending", attempts |-> 0]]]
    /\ UNCHANGED <<now, cb, calls, streak, rh, ordVars, mqVars, invVars, notifs, wire>>

\* what follows sendOrderConfirmation / sendOrderCancellation in the handler:
\* for order.created the publish of notification.sent, else the end
afterSend(q) ==
    IF q.op = "order.created" THEN [q EXCEPT !.pc = "app.publish"]
    ELSE [q EXCEPT !.pc = "app.done"]

\* 'await notification.save()' resolves
AppSaveResolves ==
    /\ notc[1].pc = "app.save"
    /\ notifs' = [notifs EXCEPT ![notc[1].id] = notc[1].doc]
    /\ notc' = [notc EXCEPT ![1] = afterSend([@ EXCEPT !.result = "saved"])]
    /\ UNCHANGED <<now, cb, calls, streak, rh, ordVars, mqVars, invVars, wire>>

\* 'await notification.save()' rejects: the catch block of
\* sendOrderConfirmation / sendOrderCancellation logs, and the function
\* returns normally
AppSaveRejects ==
    /\ notc[1].pc = "app.save"
    /\ notc' = [notc EXCEPT ![1] = afterSend([@ EXCEPT !.result = "save_failed"])]
    /\ UNCHANGED <<now, cb, calls, streak, rh, ordVars, mqVars, invVars, notifs, wire>>

\* 'await this.messageQueue.publishEvent(notificationEvent, ...)': when it
\* rejects, the handler's own catch block logs
AppPublish(outcome) ==
    /\ notc[1].pc = "app.publish"
    /\ LET e == publishEvent(cb, channel, now, outcome) IN
       /\ cb' = e.state
       /\ notc' = [notc EXCEPT ![1] =
             [@ EXCEPT !.pc = "app.done",
                       !.result = IF e.result \in {"true", "false"} THEN @
                                  ELSE "publish_threw"]]
    /\ UNCHANGED <<now, calls, streak, rh, ordVars, mqVars, invVars, notifs, wire>>

\* The handler's promise resolves, as it does on every path, and the
\* manager's callback acknowledges the message.
AppHandlerResolves(m) ==
    /\ Handling(m)
    /\ notc[1].pc = "app.done"
    /\ msgs' = [msgs EXCEPT ![m] = [ack(@, channel) EXCEPT !.settled = "resolved"]]
    /\ notc' = [notc EXCEPT ![1] = IdleNtf]
    /\ UNCHANGED <<now, cb, calls, streak, rh, ordVars, mq, pub, invVars, notifs, wire>>

\* The notification service after its setupMessageQueue, its queue holding
\* order events, one handler running at a time.
InitApp ==
    /\ now = 0
    /\ CBParked
    /\ RHParked
    /\ channel = TRUE
    /\ orders = [o \in OrderIds |-> NoOrder]
    /\ reqs = [r \in Requests |-> IdleReq]
    /\ mq = [connectOk(MQNew) EXCEPT !.consuming = TRUE]
    /\ pub = PubNone
    /\ msgs = [m \in Msgs |-> NewMsg("ok")]
    /\ InvParked
    /\ NtfParked

NoHandlerRunning == \A n \in Msgs : ~Handling(n)

NextApp ==
    \/ \E m \in Msgs : BrokerDeliver(m)
    \/ \E m \in Msgs : NoHandlerRunning /\ MQCallback(m)
    \/ \E m \in Msgs, type \in {"order.created", "order.cancelled"} : AppHandle(m, type)
    \/ AppSaveResolves
    \/ AppSaveRejects
    \/ \E outcome \in PublishOutcomes : AppPublish(outcome)
    \/ \E m \in Msgs : AppHandlerResolves(m)
    \/ OrdTick

SpecApp == InitApp /\ [][NextApp]_vars

\* The inventory service handling the events of one order, one at a time,
\* in any order and any number of times: the manager
\* connected and the broker taking every message, each product of the events
\* either created with some stock or not in the collection.
InitEvents ==
    /\ now = 0
    /\ CBParked
    /\ RHParked
    /\ channel = TRUE
    /\ orders = [o \in OrderIds |-> NoOrder]
    /\ reqs = [r \in Requests |-> IdleReq]
    /\ mq = connectOk(MQNew)
    /\ pub = PubNone
    /\ msgs = [m \in Msgs |-> NewMsg("ok")]
    /\ \E v \in Variants :
          products \in
              {[variant |-> v, docs |-> d] :
                  d \in [EventProductIds ->
                            {NoProduct, Created(v, 0), Created(v, MaxStock)}]}
    /\ invc = [c \in InvCalls |-> IdleInv]
    /\ proc = IdleProc
    /\ NtfParked

NextEvents ==
    \/ \E items \in EventItemLists : InvProcessOrder("processOrderCreated", items, "A")
    \/ \E items \in EventItemLists : InvProcessOrder("processOrderCancelled", items, "A")
    \/ ProcCallReserve
    \/ ProcCallRelease
    \/ InvSave(1)
    \/ InvPublish(1, "true")
    \/ ProcResume
    \/ ProcReturn

SpecEvents == InitEvents /\ [][NextEvents]_vars

\* stock quantities on both sides of the low-stock threshold
StockLevels == {0, lowStockThreshold - 1, lowStockThreshold, lowStockThreshold + 1}

\* The inventory service with stock around the low-stock threshold: products
\* are created, their stock is set, and one unit is reserved and released.
NextStock ==
    \/ \E c \in InvCalls, p \in ProductIds, n \in StockLevels :
          NoInvCallInFlight(c) /\ InvCreateProduct(c, p, n)
    \/ \E c \in InvCalls, p \in ProductIds, n \in StockLevels :
          NoInvCallInFlight(c) /\ InvUpdateProductStock(c, p, n)
    \/ \E c \in InvCalls, p \in ProductIds :
          NoInvCallInFlight(c) /\ InvReserveInventory(c, p, 1, "A")
    \/ \E c \in InvCalls, p \in ProductIds :
          NoInvCallInFlight(c) /\ InvReleaseInventory(c, p, 1, "A")
    \/ \E c \in InvCalls : InvSave(c)
    \/ \E c \in InvCalls, outcome \in PublishOutcomes : InvPublish(c, outcome)
    \/ \E c \in InvCalls : InvReturn(c)
    \/ MQConnect

SpecStock == InitInventory /\ [][NextStock]_vars

\* The notification service over an empty collection, serving one call at
\* a time.  The service constructs its own manager and never calls connect()
\* on it (part_000:11-18); connect() from outside is allowed for, so that the
\* calls are followed both with the channel unset and with it set.
InitNotif ==
    /\ now = 0
    /\ CBParked
    /\ RHParked
    /\ OrdParked
    /\ MQParked
    /\ InvParked
    /\ NtfParked

NoNtfCallInFlight(c) == c = 1 /\ \A d \in NtfCalls : NtfFree(d)

NextNotif ==
    \/ \E c \in NtfCalls : NoNtfCallInFlight(c) /\ NtfSendNotification(c)
    \/ \E c \in NtfCalls, i \in NotifIds :
          NoNtfCallInFlight(c) /\ NtfRetryNotification(c, i)
    \/ \E c \in NtfCalls : NtfSave(c)
    \/ \E c \in NtfCalls, outcome \in PublishOutcomes : NtfPublish(c, outcome)
    \/ \E c \in NtfCalls, success \in BOOLEAN : NtfDelivered(c, success)
    \/ \E c \in NtfCalls : NtfProcessSave(c)
    \/ \E c \in NtfCalls : NtfRetrySave(c)
    \/ \E c \in NtfCalls : NtfSaveRejects(c)
    \/ \E c \in NtfCalls : NtfProcessSaveRejects(c)
    \/ \E c \in NtfCalls : NtfCatchSave(c)
    \/ \E c \in NtfCalls : NtfCatchSaveRejects(c)
    \/ \E c \in NtfCalls : NtfReturn(c)
    \/ MQConnect
    \/ OrdTick

SpecNotif == InitNotif /\ [][NextNotif]_vars

\* The notification service serving retryNotification calls at once, over
\* notifications whose delivery has failed once or twice.
ConcNtfCalls == 1..MaxConcNtfCalls

InitNotifConc ==
    /\ now = 0
    /\ CBParked
    /\ RHParked
    /\ OrdParked
    /\ MQParked
    /\ InvParked
    /\ notifs \in [NotifIds -> {[status |-> "failed", attempts |-> a] : a \in 1..2}]
    /\ notc = [c \in ConcNtfCalls |-> IdleNtf]
    /\ wire = NoWire

NextNotifConc ==
    \/ \E c \in ConcNtfCalls, i \in NotifIds : NtfRetryNotification(c, i)
    \/ \E c \in ConcNtfCalls : NtfRetrySave(c)
    \/ \E c \in ConcNtfCalls, success \in BOOLEAN : NtfDelivered(c, success)
    \/ \E c \in ConcNtfCalls : NtfProcessSave(c)
    \/ \E c \in ConcNtfCalls : NtfReturn(c)

SpecNotifConc == InitNotifConc /\ [][NextNotifConc]_vars

\* The same where a call that has started runs to its end: its saves
\* settle, publishEvent settles, the simulated delivery's timer fires.
FairSpecNotif ==
    /\ SpecNotif
    /\ \A c \in NtfCalls :
          /\ WF_vars(NtfSave(c) \/ NtfRetrySave(c) \/ NtfSaveRejects(c))
          /\ WF_vars(\E outcome \in PublishOutcomes : NtfPublish(c, outcome))
          /\ WF_vars(\E success \in BOOLEAN : NtfDelivered(c, success))
          /\ WF_vars(NtfProcessSave(c) \/ NtfProcessSaveRejects(c))
          /\ WF_vars(NtfCatchSave(c) \/ NtfCatchSaveRejects(c))
          /\ WF_vars(NtfReturn(c))

\* One manager that connects, consumes its queue, and is given one envelope
\* to publish with a key its own queue is bound with.
NextWire ==
    \/ MQConnect
    \/ MQConsumeEvents
    \/ \E e \in Envelopes, outcome \in PublishOutcomes : WirePublish(e, outcome)
    \/ WireDeliver
    \/ WireCallback

SpecWire == InitNotif /\ [][NextWire]_vars

-----------------------------------------------------------------------------
(* Properties                                                              *)

\* The transition table of the order lifecycle, as the specification gives it.
AllowedSteps ==
    {<<"pending", "confirmed">>, <<"pending", "cancelled">>,
     <<"confirmed", "processing">>, <<"confirmed", "cancelled">>,
     <<"processing", "shipped">>, <<"processing", "cancelled">>,
     <<"shipped", "delivered">>}

\* r's call ends in this step
Ends(r) == reqs[r].pc # "done" /\ reqs'[r].pc = "done"

\* C1: with the calls made one at a time, every change of an order's stored
\* status is its creation as pending or a step of the transition table; so a
\* delivered or cancelled order never changes status again.
C1_StatusFollowsTable ==
    [][\A o \in OrderIds :
          orders'[o].status # orders[o].status =>
              \/ orders[o].status = "none" /\ orders'[o].status = "pending"
              \/ <<orders[o].status, orders'[o].status>> \in AllowedSteps]_vars

\* C1 witness: an order went all the way to delivered, and a later request
\* to change it was refused.
C1_Witness ==
    \E r \in Requests :
        /\ reqs[r].pc = "done"
        /\ reqs[r].read = "delivered"
        /\ reqs[r].result \in {"invalid_transition", "cannot_cancel"}
        /\ orders[reqs[r].orderId].status = "delivered"

\* C2 as stated: an updateOrderStatus call with newStatus in the allowed set
\* of the status it read ends successfully with newStatus stored and the
\* order.updated event published; any other ends with the invalid-transition
\* error, the stored status unchanged and nothing published.
C2_AsStated ==
    [][\A r \in Requests :
          (Ends(r) /\ reqs'[r].op = "updateOrderStatus" /\ reqs'[r].read # "none") =>
              LET q == reqs'[r] IN
              IF <<q.read, q.arg>> \in AllowedSteps
              THEN /\ q.result = "ok"
                   /\ orders'[q.orderId].status = q.arg
                   /\ q.evType = "order.updated"
                   /\ q.handed >= 1
              ELSE /\ q.result = "invalid_transition"
                   /\ orders'[q.orderId].status = q.read
                   /\ orders' = orders
                   /\ q.handed = 0 /\ q.attempt = 0]_vars

\* C2 amended: the successful call stores newStatus and makes between one and
\* three attempts to publish order.updated (carrying newStatus); the event
\* stays unpublished only when all three attempts failed before the channel
\* took it.  The refused call is as stated.
C2_PublishAttempted ==
    [][\A r \in Requests :
          (Ends(r) /\ reqs'[r].op = "updateOrderStatus" /\ reqs'[r].read # "none") =>
              LET q == reqs'[r] IN
              IF <<q.read, q.arg>> \in AllowedSteps
              THEN /\ q.result = "ok"
                   /\ orders'[q.orderId].status = q.arg
                   /\ q.evType = "order.updated" /\ q.evStatus = q.arg
                   /\ q.attempt \in 1..3
                   /\ q.handed = 0 => q.attempt = 3
              ELSE /\ q.result = "invalid_transition"
                   /\ orders'[q.orderId].status = q.read
                   /\ orders' = orders
                   /\ q.handed = 0 /\ q.attempt = 0]_vars

\* C2 witness: a shipped order was updated to delivered and its event was
\* taken by the channel.
C2_Witness ==
    \E r \in Requests :
        /\ reqs[r].pc = "done" /\ reqs[r].op = "updateOrderStatus"
        /\ reqs[r].read = "shipped" /\ reqs[r].arg = "delivered"
        /\ reqs[r].result = "ok" /\ reqs[r].handed >= 1
        /\ orders[reqs[r].orderId].status = "delivered"

\* C3 as stated: cancelOrder on a cancelled order ends with the
\* already-cancelled error, on a shipped or delivered one with the
\* cannot-cancel error, both leaving the order as it was and publishing
\* nothing; on a pending, confirmed or processing order it ends successfully
\* with cancelled stored and order.cancelled published.
C3_AsStated ==
    [][\A r \in Requests :
          (Ends(r) /\ reqs'[r].op = "cancelOrder" /\ reqs'[r].read # "none") =>
              LET q == reqs'[r] IN
              CASE q.read = "cancelled" ->
                      /\ q.result = "already_cancelled"
                      /\ orders' = orders /\ q.handed = 0 /\ q.attempt = 0
                [] q.read \in {"shipped", "delivered"} ->
                      /\ q.result = "cannot_cancel"
                      /\ orders' = orders /\ q.handed = 0 /\ q.attempt = 0
                [] OTHER ->
                      /\ q.result = "ok"
                      /\ orders'[q.orderId].status = "cancelled"
                      /\ q.evType = "order.cancelled"
                      /\ q.handed >= 1]_vars

\* C3 amended: the successful cancellation stores cancelled and makes between
\* one and three attempts to publish order.cancelled; the event stays
\* unpublished only when all three attempts failed before the channel took
\* it.  The two refusals are as stated.
C3_PublishAttempted ==
    [][\A r \in Requests :
          (Ends(r) /\ reqs'[r].op = "cancelOrder" /\ reqs'[r].read # "none") =>
              LET q == reqs'[r] IN
              CASE q.read = "cancelled" ->
                      /\ q.result = "already_cancelled"
                      /\ orders' = orders /\ q.handed = 0 /\ q.attempt = 0
                [] q.read \in {"shipped", "delivered"} ->
                      /\ q.result = "cannot_cancel"
                      /\ orders' = orders /\ q.handed = 0 /\ q.attempt = 0
                [] OTHER ->
                      /\ q.result = "ok"
                      /\ orders'[q.orderId].status = "cancelled"
                      /\ q.evType = "order.cancelled" /\ q.evStatus = "cancelled"
                      /\ q.attempt \in 1..3
                      /\ q.handed = 0 => q.attempt = 3]_vars

\* C3 witness: a processing order was cancelled and its event was taken by
\* the channel.
C3_Witness ==
    \E r \in Requests :
        /\ reqs[r].pc = "done" /\ reqs[r].op = "cancelOrder"
        /\ reqs[r].read = "processing"
        /\ reqs[r].result = "ok" /\ reqs[r].handed >= 1
        /\ orders[reqs[r].orderId].status = "cancelled"

\* C4: the breaker is CLOSED exactly while fewer than threshold wrapped
\* operations have failed in a row; every failure is rethrown and adds one to
\* failureCount; the failure that makes the run threshold long leaves the
\* breaker OPEN with failureCount = threshold.
C4_OpensAtThreshold ==
    /\ [](streak < cb.threshold => cb.status = "CLOSED" /\ cb.failureCount = streak)
    /\ [][streak' = streak + 1 =>
            /\ \E c \in Callers : InFlight(c) /\ calls'[c].st = "rejected"
            /\ cb'.failureCount = cb.failureCount + 1
            /\ streak' = cb.threshold =>
                  cb'.status = "OPEN" /\ cb'.failureCount = cb.threshold]_vars

\* C4 witness: threshold failures in a row, threshold > 1, and the breaker
\* OPEN with that count.
C4_Witness ==
    /\ cb.threshold = MaxThreshold
    /\ streak = cb.threshold
    /\ cb.status = "OPEN" /\ cb.failureCount = cb.threshold
    /\ \E c \in Callers : calls[c].st = "rejected"

\* C5: an execute call made while the breaker is OPEN and less than timeout
\* ms after lastFailureTime is rejected with the circuit-open error, its
\* operation is not invoked, and the breaker's state is untouched.
C5_OpenRejects ==
    [][\A c \in Callers :
          (/\ ~InFlight(c) /\ calls'[c] # calls[c]
           /\ cb.status = "OPEN"
           /\ now - cb.lastFailureTime < cb.timeout) =>
              calls'[c].st = "open" /\ cb' = cb]_vars

\* C5 witness: a call was rejected and the breaker is still OPEN inside its
\* timeout.
C5_Witness ==
    /\ cb.status = "OPEN"
    /\ now - cb.lastFailureTime < cb.timeout
    /\ \E c \in Callers : calls[c].st = "open"

\* C6: an execute call made while the breaker is OPEN and timeout ms or more
\* after lastFailureTime sets HALF_OPEN and invokes its operation; every
\* operation that resolves leaves the breaker CLOSED with failureCount 0.
C6_ProbeAndReset ==
    [][\A c \in Callers :
          /\ (/\ ~InFlight(c) /\ calls'[c] # calls[c]
              /\ cb.status = "OPEN"
              /\ now - cb.lastFailureTime >= cb.timeout) =>
                 cb'.status = "HALF_OPEN" /\ calls'[c].st = "running"
          /\ (InFlight(c) /\ calls'[c].st = "resolved") =>
                 cb'.status = "CLOSED" /\ cb'.failureCount = 0]_vars

\* C6 witness: a probe resolved and the breaker is CLOSED with a count of 0.
C6_Witness ==
    /\ cb.status = "CLOSED" /\ cb.failureCount = 0
    /\ \E c \in Callers : calls[c].st = "resolved" /\ calls[c].probe

\* C7: with the calls made one at a time, a probe that fails leaves the
\* breaker OPEN with failureCount one more than it was before HALF_OPEN and
\* lastFailureTime the time of that failure; and a probe only starts timeout
\* ms or more after lastFailureTime.
C7_FailedProbeReopens ==
    [][\A c \in Callers :
          /\ (InFlight(c) /\ calls[c].probe /\ calls'[c].st = "rejected") =>
                 /\ cb.status = "HALF_OPEN"
                 /\ cb'.status = "OPEN"
                 /\ cb'.failureCount = calls[c].fcAtEntry + 1
                 /\ cb'.failureCount > cb.threshold
                 /\ cb'.lastFailureTime = now
          /\ (~InFlight(c) /\ calls'[c].st = "running" /\ calls'[c].probe) =>
                 now - cb.lastFailureTime >= cb.timeout]_vars

\* C7 witness: threshold 3, the probe failed, the count went from 3 to 4.
C7_Witness ==
    /\ cb.threshold = 3 /\ cb.status = "OPEN" /\ cb.failureCount = 4
    /\ cb.timeout > 0
    /\ \E c \in Callers :
          calls[c].st = "rejected" /\ calls[c].probe /\ calls[c].fcAtEntry = 3

\* C8: an execute call that ends rejected (maxAttempts >= 1) invoked the
\* operation maxAttempts times, slept maxAttempts - 1 times, and rejects with
\* 'Operation failed after <maxAttempts> attempts: <last message>'.
C8_FailsAfterMaxAttempts ==
    (rh.pc = "rejected" /\ rh.config.maxAttempts >= 1) =>
        /\ rh.succeededAt = 0
        /\ rh.invocations = rh.config.maxAttempts
        /\ Len(rh.delays) = rh.config.maxAttempts - 1
        /\ rh.result = <<"Operation failed after ", rh.config.maxAttempts,
                         " attempts: ", ErrorMessage(rh.lastError)>>

\* C8 witness: three failing attempts, the last with message 'second'.
C8_Witness ==
    /\ rh.pc = "rejected" /\ rh.config.maxAttempts = 3
    /\ rh.invocations = 3 /\ Len(rh.delays) = 2
    /\ rh.result = <<"Operation failed after ", 3, " attempts: ", "second">>

\* C9: execute never invokes the operation more than maxAttempts times; before
\* attempt k it has invoked k - 1 times and slept k - 1 times; a success at
\* attempt k resolves with that attempt's result after k invocations and
\* k - 1 sleeps, it gives up only after maxAttempts failures, and after a
\* success the operation is not invoked again by that call.
C9_BoundedAttempts ==
    /\ [](rh.config.maxAttempts >= 1 =>
            /\ rh.invocations <= rh.config.maxAttempts
            /\ rh.pc = "call" =>
                  /\ rh.attempt <= rh.config.maxAttempts
                  /\ rh.invocations = rh.attempt - 1
                  /\ Len(rh.delays) = rh.attempt - 1
            /\ rh.pc = "sleep" => rh.invocations < rh.config.maxAttempts
            /\ rh.pc = "rejected" => rh.invocations = rh.config.maxAttempts
            /\ rh.pc = "resolved" =>
                  /\ rh.succeededAt \in 1..rh.config.maxAttempts
                  /\ rh.invocations = rh.succeededAt
                  /\ Len(rh.delays) = rh.succeededAt - 1
                  /\ rh.result = <<"value", rh.succeededAt>>)
    /\ [][rh.pc = "resolved" => rh'.invocations <= rh.invocations]_vars

\* C9 witness: the third attempt of five succeeded.
C9_Witness ==
    /\ rh.pc = "resolved" /\ rh.config.maxAttempts = 5
    /\ rh.succeededAt = 3 /\ rh.invocations = 3 /\ Len(rh.delays) = 2

\* C10: no delay exceeds maxBackoffMs; without jitter the delay after failed
\* attempt k is min(backoffMs * 2^(k-1), maxBackoffMs): 1000, 2000 for
\* (1000, 10000) and 10000, 15000, 15000, 15000 for (10000, 15000).
C10_Delays ==
    /\ \A k \in 1..Len(rh.delays) :
          /\ rh.delays[k] <= rh.config.maxBackoffMs * Scale
          /\ ~rh.config.jitter =>
                rh.delays[k] =
                    Min(rh.config.backoffMs * (2 ^ (k - 1)), rh.config.maxBackoffMs) * Scale
    /\ (~rh.config.jitter /\ rh.config.backoffMs = 1000
            /\ rh.config.maxBackoffMs = 10000 /\ Len(rh.delays) >= 2) =>
          SubSeq(rh.delays, 1, 2) = <<1000 * Scale, 2000 * Scale>>
    /\ (~rh.config.jitter /\ rh.config.backoffMs = 10000
            /\ rh.config.maxBackoffMs = 15000 /\ Len(rh.delays) = 4) =>
          rh.delays = <<10000 * Scale, 15000 * Scale, 15000 * Scale, 15000 * Scale>>

\* C10 witness: four sleeps of a handler with backoffMs 10000, maxBackoffMs
\* 15000 and no jitter.
C10_Witness ==
    /\ ~rh.config.jitter
    /\ rh.config.backoffMs = 10000 /\ rh.config.maxBackoffMs = 15000
    /\ Len(rh.delays) = 4

\* C11: with close() not called, a message whose handler resolved was
\* acknowledged and not negatively acknowledged; one whose handler rejected
\* was negatively acknowledged and not acknowledged, with requeue false
\* exactly when the rejection is an Error whose message contains
\* 'validation' (then the broker drops or dead-letters it) and requeue true
\* otherwise (then it is back in the queue); while the handler runs, neither
\* has happened.
C11_AckOrNack ==
    \A m \in Msgs :
        /\ msgs[m].settled = "resolved" =>
              msgs[m].ack /\ ~msgs[m].nack /\ msgs[m].st = "acked"
        /\ msgs[m].settled = "rejected" =>
              /\ msgs[m].nack /\ ~msgs[m].ack
              /\ msgs[m].requeue = ~(msgs[m].err.isError /\ msgs[m].err.marker)
              /\ msgs[m].st = IF msgs[m].requeue THEN "queued" ELSE "rejected"
        /\ msgs[m].st = "handling" => ~msgs[m].ack /\ ~msgs[m].nack

\* C11 witness: one message acknowledged after its handler resolved, another
\* negatively acknowledged without requeue after its handler rejected with a
\* validation Error.
C11_Witness ==
    \E m, n \in Msgs :
        /\ msgs[m].settled = "resolved" /\ msgs[m].ack /\ msgs[m].st = "acked"
        /\ msgs[n].settled = "rejected" /\ msgs[n].nack /\ ~msgs[n].requeue
        /\ msgs[n].err = [isError |-> TRUE, marker |-> TRUE]

C13_OpensAndFailsFast ==
    /\ [](pub.threw >= 3 => cb.status = "OPEN")
    /\ [][pub'.n = pub.n + 1 =>
            /\ (cb.status = "OPEN" /\ now - cb.lastFailureTime < 30000) =>
                  pub'.result = "circuit_open" /\ ~pub'.called /\ cb' = cb
            /\ (cb.status = "OPEN" /\ now - cb.lastFailureTime >= 30000 /\ channel) =>
                  pub'.called /\ pub'.result # "circuit_open"]_vars

\* C13 witness: the breaker opened at three throws in a row, rejected a call,
\* and 30000 ms or more later let a call through to the channel, which took
\* the message.
C13_Witness ==
    /\ pub.afterThrows /\ pub.rejected /\ pub.probe
    /\ pub.called /\ pub.result = "true"
    /\ cb.status = "CLOSED"

\* C14 as stated: every publishEvent call made while the channel is not set
\* is rejected with 'Channel not initialized' and does not call
\* channel.publish.
C14_AsStated ==
    [][(pub'.n = pub.n + 1 /\ ~channel) =>
          pub'.result = "channel_not_initialized" /\ ~pub'.called]_vars

\* C14 amended: every publishEvent call made while the channel is not set is
\* rejected and does not call channel.publish; the error is 'Channel not
\* initialized', and counts as a failure of the breaker, unless the breaker
\* is OPEN and inside its timeout, when it is the circuit-open error.
C14_RejectsWithoutChannel ==
    [][(pub'.n = pub.n + 1 /\ ~channel) =>
          /\ ~pub'.called
          /\ IF cb.status = "OPEN" /\ now - cb.lastFailureTime < MQBreakerTimeout
             THEN pub'.result = "circuit_open" /\ cb' = cb
             ELSE /\ pub'.result = "channel_not_initialized"
                  /\ cb'.failureCount = cb.failureCount + 1]_vars

\* C14 witness: after close() has cleared the channel, a call let through by
\* the breaker that had opened was rejected with 'Channel not initialized'.
C14_Witness ==
    /\ ~channel /\ mq.close.pc = "done"
    /\ pub.probe /\ pub.result = "channel_not_initialized" /\ ~pub.called

\* C15: since the last successful connect() at most 10 reconnect timers have
\* been set, the k-th with delay 5000 * 2^(k-1) ms; a connection 'error' or
\* 'close' event sets the next timer while fewer than 10 have been set, and
\* otherwise sets none and reports that the maximum was reached.
C15_AtMostTenTimers ==
    /\ [](/\ Len(mq.scheduled) <= 10
          /\ \A k \in 1..Len(mq.scheduled) : mq.scheduled[k] = 5000 * (2 ^ (k - 1)))
    /\ [][mq'.events = mq.events + 1 =>
            IF Len(mq.scheduled) < 10
            THEN /\ mq'.scheduled =
                        Append(mq.scheduled, 5000 * (2 ^ Len(mq.scheduled)))
                 /\ mq'.timers[Len(mq.scheduled) + 1] =
                        mq.timers[Len(mq.scheduled) + 1] + 1
                 /\ mq'.report = "scheduled"
            ELSE /\ mq'.scheduled = mq.scheduled
                 /\ mq'.timers = mq.timers
                 /\ mq'.report = "max_reached"]_vars

\* C15 witness: ten timers set, the tenth with delay 2560000 ms, and a
\* further event that set none.
C15_Witness ==
    /\ Len(mq.scheduled) = 10 /\ mq.scheduled[10] = 2560000
    /\ mq.events >= 11
    /\ mq.report = "max_reached"

\* C16 as stated: a close() in which closing the channel failed has
\* attempted to close the connection, and has returned without raising.
C16_AsStated ==
    (mq.close.pc = "done" /\ mq.close.channelCloseFailed) =>
        mq.close.connectionCloseAttempted /\ mq.close.result = "returned"

\* a step leaves p's quantities and reservation records as they are
SameProduct(p) ==
    /\ products'.docs[p].stockQuantity = products.docs[p].stockQuantity
    /\ products'.docs[p].reservedQuantity = products.docs[p].reservedQuantity
    /\ products'.docs[p].reservations = products.docs[p].reservations

\* the parts of C17 that do not concern the publication: the decision on
\* entry, and the write
C17_Reserves(c) ==
    LET q == invc'[c]
        d == products.docs[q.productId]
    IN
    /\ (InvFree(c) /\ q.op = "reserveInventory" /\ d.exists /\ d.isActive) =>
          IF Max(0, d.stockQuantity - d.reservedQuantity) >= q.quantity
          THEN q.pc = "save" /\ products' = products
          ELSE /\ q.pc = "done" /\ q.result = "false"
               /\ products' = products
               /\ q.attempt = 0 /\ q.handed = 0
    /\ (invc[c].pc = "save" /\ q.pc # "save" /\ q.op = "reserveInventory") =>
          /\ q.pc = "publish" /\ q.result = "true"
          /\ q.evType = "inventory.reserved" /\ q.todo = <<>>
          /\ products'.docs[q.productId].stockQuantity = d.stockQuantity
          /\ products'.docs[q.productId].reservedQuantity =
                d.reservedQuantity + q.quantity
          /\ products'.docs[q.productId].reservations =
                Append(d.reservations,
                       [orderId |-> q.orderId, quantity |-> q.quantity])
    /\ (invc[c].pc = "publish" /\ q # invc[c] /\ q.op = "reserveInventory") =>
          SameProduct(q.productId) /\ q.result = "true"

\* C17 as stated: reserveInventory on an existing active product with
\* availableQuantity >= q returns true, adds q to reservedQuantity, appends
\* one record for the order and publishes inventory.reserved; with
\* availableQuantity < q it returns false, changes nothing and publishes
\* nothing.
C17_AsStated ==
    [][\A c \in InvCalls :
          /\ C17_Reserves(c)
          /\ (invc[c].pc = "publish" /\ invc'[c].pc = "done"
                /\ invc'[c].op = "reserveInventory") =>
                invc'[c].evType = "inventory.reserved" /\ invc'[c].handed >= 1]_vars

\* C17 amended: as stated, but the successful call makes between one and
\* three attempts to publish inventory.reserved and returns true whatever
\* they come to; the event stays unpublished only when all three attempts
\* failed before the channel took it.
C17_PublishAttempted ==
    [][\A c \in InvCalls :
          /\ C17_Reserves(c)
          /\ (invc[c].pc = "publish" /\ invc'[c].pc = "done"
                /\ invc'[c].op = "reserveInventory") =>
                /\ invc'[c].evType = "inventory.reserved"
                /\ invc'[c].attempt \in 1..3
                /\ invc'[c].handed = 0 => invc'[c].attempt = 3]_vars

\* C17 witness: a reservation of 2 for order B returned true with its event
\* taken by the channel, the product holding the record and 2 reserved.
C17_Witness ==
    \E c \in InvCalls :
        /\ invc[c].pc = "done" /\ invc[c].op = "reserveInventory"
        /\ invc[c].result = "true" /\ invc[c].quantity = 2 /\ invc[c].handed >= 1
        /\ products.docs[invc[c].productId].reservedQuantity = 2
        /\ products.docs[invc[c].productId].reservations =
              <<[orderId |-> "B", quantity |-> 2]>>

\* C18 as stated: every stored product has 0 <= reservedQuantity <=
\* stockQuantity.
C18_AsStated ==
    \A p \in ProductIds :
        products.docs[p].exists =>
            /\ products.docs[p].reservedQuantity <= products.docs[p].stockQuantity
            /\ products.docs[p].reservedQuantity >= 0
            /\ products.docs[p].stockQuantity >= 0

\* C19 as stated: the write of a releaseInventory(productId, q, orderId)
\* call made when a release of q has already been written for that order,
\* and no reservation for it since, leaves reservedQuantity and the
\* reservation records as they were.
C19_AsStated ==
    [][\A c \in InvCalls :
          (/\ invc[c].pc = "save" /\ invc[c].op = "releaseInventory"
           /\ products.docs[invc[c].productId].released[invc[c].orderId]
                 = invc[c].quantity
           /\ products' # products) =>
              /\ products'.docs[invc[c].productId].reservedQuantity =
                    products.docs[invc[c].productId].reservedQuantity
              /\ products'.docs[invc[c].productId].reservations =
                    products.docs[invc[c].productId].reservations]_vars

\* C20: with either Product model, every stored product, and every document
\* a call has saved, has availableQuantity = max(0, stockQuantity -
\* reservedQuantity).
C20_AvailableIsDerived ==
    /\ \A p \in ProductIds :
          products.docs[p].exists =>
              availableQuantity(products.variant, products.docs[p]) =
                  IF products.docs[p].stockQuantity - products.docs[p].reservedQuantity >= 0
                  THEN products.docs[p].stockQuantity - products.docs[p].reservedQuantity
                  ELSE 0
    /\ \A c \in InvCalls :
          (invc[c].pc \in {"publish", "done"} /\ invc[c].result \in {"ok", "true"}) =>
              availableQuantity(products.variant, invc[c].doc) =
                  IF invc[c].doc.stockQuantity - invc[c].doc.reservedQuantity >= 0
                  THEN invc[c].doc.stockQuantity - invc[c].doc.reservedQuantity
                  ELSE 0

\* C20 witness: with the stored field, a product whose stock was lowered
\* below what is reserved has availableQuantity 0.
C20_Witness ==
    /\ products.variant = "stored"
    /\ \E p \in ProductIds :
          /\ products.docs[p].exists
          /\ products.docs[p].stockQuantity = 1
          /\ products.docs[p].reservedQuantity = 2
          /\ products.docs[p].availableQuantity = 0

\* C21: a createOrder, updateOrderStatus or cancelOrder call that has saved
\* its order ends, whatever its publish attempts came to, after one to three
\* of them, by returning the order, with the stored order as the call saved
\* it; the failure of the last attempt is not raised.
C21_PublishFailureNotRaised ==
    [][\A r \in DOMAIN reqs :
          (reqs[r].pc \in {"publish", "sleep"} /\ reqs'[r].pc = "done") =>
              /\ reqs'[r].result = "ok"
              /\ reqs'[r].attempt \in 1..3
              /\ orders' = orders
              /\ orders[reqs[r].orderId].status = reqs[r].doc.status
              /\ reqs[r].op = "createOrder" => orders[reqs[r].orderId] = reqs[r].doc]_vars

\* C21 witness: a cancelOrder call returned the order, stored as cancelled,
\* after three publish attempts none of which the channel took.
C21_Witness ==
    \E r \in DOMAIN reqs :
        /\ reqs[r].op = "cancelOrder" /\ reqs[r].pc = "done"
        /\ reqs[r].result = "ok"
        /\ reqs[r].attempt = 3 /\ reqs[r].handed = 0
        /\ orders[reqs[r].orderId].status = "cancelled"

\* C22: a createOrder call given no items (null) or an empty sequence ends
\* at once with the 'at least one item' error: it stores no order, makes no
\* publish attempt, leaves the breaker alone, and is not retried.
C22_NoItemsFailsFirst ==
    /\ [](\A r \in DOMAIN reqs :
            (reqs[r].op = "createOrder" /\ reqs[r].arg \in {"null", "empty"}) =>
                /\ reqs[r].pc = "done" /\ reqs[r].result = "no_items"
                /\ reqs[r].attempt = 0 /\ reqs[r].handed = 0
                /\ reqs[r].doc = NoOrder)
    /\ [][\A r \in DOMAIN reqs :
            (reqs'[r].op = "createOrder" /\ reqs'[r].arg \in {"null", "empty"}
                /\ reqs'[r] # reqs[r]) =>
                orders' = orders /\ cb' = cb /\ now' = now]_vars

\* C22 witness: a createOrder call given an empty sequence has failed, the
\* collection being empty.
C22_Witness ==
    \E r \in DOMAIN reqs :
        /\ reqs[r].op = "createOrder" /\ reqs[r].arg = "empty"
        /\ reqs[r].result = "no_items"
        /\ \A o \in OrderIds : orders[o] = NoOrder

\* the sum over items of price * quantity
RECURSIVE ItemSum(_)
ItemSum(items) ==
    IF items = <<>> THEN 0
    ELSE Head(items).price * Head(items).quantity + ItemSum(Tail(items))

\* C23: a createOrder call given a non-empty items sequence goes on to save,
\* and its save stores the order with status pending, the items given and
\* total the sum over them of price * quantity (200 for 2 at 50 and 1 at
\* 100); every stored order has that total, and no save fails on the model's
\* total check.
C23_TotalIsItemSum ==
    /\ [](/\ \A o \in OrderIds :
              orders[o] # NoOrder =>
                  /\ orders[o].total = ItemSum(orders[o].items)
                  /\ orders[o].items # <<>>
                  /\ orders[o].items = <<[price |-> 50, quantity |-> 2],
                                         [price |-> 100, quantity |-> 1]>>
                        => orders[o].total = 200
          /\ \A r \in DOMAIN reqs : reqs[r].result # "total_mismatch")
    /\ [][\A r \in DOMAIN reqs :
            /\ (reqs'[r].op = "createOrder" /\ reqs'[r].arg = "items"
                   /\ reqs[r].pc = "idle") =>
                   reqs'[r].pc = "save" /\ reqs'[r].doc.items # <<>>
            /\ (reqs[r].op = "createOrder" /\ reqs[r].pc = "save"
                   /\ reqs'[r] # reqs[r]) =>
                   /\ orders[reqs[r].orderId] = NoOrder
                   /\ orders'[reqs[r].orderId] =
                         [status |-> "pending", items |-> reqs[r].doc.items,
                          total |-> ItemSum(reqs[r].doc.items)]]_vars

\* C23 witness: the order of 2 at 50 and 1 at 100 is stored as pending with
\* total 200, its createOrder call having returned it.
C23_Witness ==
    \E r \in DOMAIN reqs :
        /\ reqs[r].op = "createOrder" /\ reqs[r].pc = "done" /\ reqs[r].result = "ok"
        /\ orders[reqs[r].orderId] =
              [status |-> "pending",
               items |-> <<[price |-> 50, quantity |-> 2],
                           [price |-> 100, quantity |-> 1]>>,
               total |-> 200]

\* C24 as stated: a createProduct or updateProductStock call that has
\* written goes on to publish inventory.updated first, and ends with
\* inventory.low as its last event exactly when the availableQuantity of the
\* product it wrote is <= 10.  ("Publishes" is read as "goes on to the
\* publish attempts for".)
C24_AsStated ==
    /\ [](\A c \in InvCalls :
            (/\ invc[c].op \in {"createProduct", "updateProductStock"}
             /\ invc[c].pc = "done" /\ invc[c].result = "ok") =>
                (invc[c].evType = "inventory.low"
                    <=> availableQuantity(products.variant, invc[c].doc) <= 10))
    /\ [][\A c \in InvCalls :
            (/\ invc[c].op \in {"createProduct", "updateProductStock"}
             /\ invc[c].pc = "save" /\ invc'[c].pc = "publish") =>
                invc'[c].evType = "inventory.updated"]_vars

C26_AsStated ==
    \A i \in NotifIds :
        (notifs[i].status = "pending") ~> (notifs[i].status \in {"sent", "failed"})

\* deep equality of two property values, an undefined property and a
\* missing one counting as equal
SameValue(a, b) ==
    LET n(x) == IF x.k = "undefined" THEN Absent ELSE x IN n(a) = n(b)

\* C27 as stated: the event the handler is invoked with is deep-equal to the
\* envelope that was published: id, type, version, timestamp, source,
\* correlationId, metadata, and every property of data.
C27_AsStated ==
    wire.stage = "handled" =>
        /\ \A f \in DOMAIN wire.envelope \ {"data"} :
              SameValue(wire.event[f], wire.envelope[f])
        /\ \A g \in DOMAIN wire.envelope.data :
              SameValue(wire.event.data[g], wire.envelope.data[g])

\* C28 as stated: while a probe (the call that set HALF_OPEN) is in flight,
\* no other execute call invokes its operation, and the breaker's status
\* changes only when the probe itself completes.
C28_AsStated ==
    [][\A c \in Callers :
          (InFlight(c) /\ calls[c].probe /\ cb.status = "HALF_OPEN") =>
              /\ \A d \in Callers \ {c} :
                    ~InFlight(d) => calls'[d].st # "running"
              /\ cb'.status # cb.status =>
                    calls'[c].st \in {"resolved", "rejected"}]_vars

\* C30 as stated: the status never changes directly from OPEN to CLOSED, and
\* failureCount is not reset while the breaker is OPEN.
C30_AsStated ==
    [][cb.status = "OPEN" =>
          /\ cb'.status # "CLOSED"
          /\ cb'.failureCount >= cb.failureCount]_vars

\* C29 as stated: with updateOrderStatus and cancelOrder requests in flight
\* at once, every change of an order's stored status is still a step of the
\* transition table: never shipped to cancelled, never out of delivered or
\* cancelled.
C29_AsStated ==
    [][\A o \in OrderIds :
          (orders[o].status # "none" /\ orders'[o].status # orders[o].status) =>
              /\ <<orders[o].status, orders'[o].status>> \in AllowedSteps
              /\ ~(orders[o].status = "shipped" /\ orders'[o].status = "cancelled")
              /\ orders[o].status \notin {"delivered", "cancelled"}]_vars

\* C31: a reserveInventory call checks only the availableQuantity it read:
\* once it has passed the check, its save() writes the reservedQuantity it
\* computed from that read and the call returns true, whatever another call
\* has written in between.  So two calls that read the same quantity both
\* return true.
C31_StaleReadReserves ==
    [][\A c \in ConcInvCalls :
          (/\ invc[c].op = "reserveInventory"
           /\ invc[c].pc = "save"
           /\ invc'[c].pc # "save") =>
              /\ invc'[c].result = "true"
              /\ products'.docs[invc[c].productId].reservedQuantity =
                     invc[c].doc.reservedQuantity]_vars

\* C31 witness: two calls for the same product each read nothing reserved,
\* each asked for a quantity the stock covers, together for more than the
\* stock, and both returned true.
C31_Witness ==
    \E c, d \in ConcInvCalls :
        /\ c # d
        /\ invc[c].op = "reserveInventory" /\ invc[d].op = "reserveInventory"
        /\ invc[c].productId = invc[d].productId
        /\ invc[c].pc = "done" /\ invc[d].pc = "done"
        /\ invc[c].result = "true" /\ invc[d].result = "true"
        /\ invc[c].quantity >= 1 /\ invc[d].quantity >= 1
        /\ invc[c].doc.reservedQuantity = invc[c].quantity
        /\ invc[d].doc.reservedQuantity = invc[d].quantity
        /\ invc[c].quantity + invc[d].quantity >
              products.docs[invc[c].productId].stockQuantity

\* C32 as stated: once close() has been called, every message whose handler
\* had started ends acknowledged or negatively acknowledged on the channel;
\* no callback ends with neither.
C32_AsStated ==
    \A m \in mq.close.handling : msgs[m].st # "unsettled"

\* C33 as stated: once a reconnect has been scheduled (reconnectAttempts is
\* above 0), attempts go on until a connect() succeeds (which resets the
\* count) or 10 attempts have been made.
C33_AsStated ==
    (mq.reconnectAttempts > 0) ~>
        (mq.reconnectAttempts = 0 \/ mq.reconnectAttempts >= maxReconnectAttempts)

\* C34 as stated: after a successful automatic reconnect (a connection was
\* lost and connect() has since run to its end) the handler registered
\* earlier is consuming on the channel the manager holds.
C34_AsStated ==
    (mq.events > 0 /\ mq.reconnectAttempts = 0 /\ channel /\ mq.connection) =>
        mq.consuming

\* the product of item j of the event being processed holds a reservation
\* record of the event's order
HoldsReservation(j) ==
    LET rs == products.docs[proc.items[j].productId].reservations IN
    \E i \in 1..Len(rs) : rs[i].orderId = proc.orderId

\* C35: when the reserveInventory call for item k returns false,
\* processOrderCreated raises at once and writes nothing (no release); the
\* reservations made for items 1..k-1 are in place when it raises; and a
\* call for an item is only ever started for the item the loop is at, so
\* the items after k are never attempted.
C35_RaisesAtFirstFailure ==
    /\ [][(/\ proc.op = "processOrderCreated" /\ proc.pc = "loop"
            /\ invc[1].pc = "done" /\ invc[1].result = "false") =>
               /\ proc'.pc = "done" /\ proc'.result = "insufficient"
               /\ proc'.k = proc.k
               /\ products' = products]_vars
    /\ []((/\ proc.op = "processOrderCreated" /\ proc.pc = "done"
           /\ proc.result = "insufficient") =>
              /\ InvFree(1)
              /\ \A j \in 1..(proc.k - 1) : HoldsReservation(j))
    /\ [][(InvFree(1) /\ ~InvFree(1)') =>
              /\ proc.pc = "loop" /\ proc' = proc
              /\ invc'[1].productId = proc.items[proc.k].productId]_vars

\* C35 witness: an event of three items, the second of which could not be
\* reserved: the first is reserved, the third was not attempted.
C35_Witness ==
    /\ proc.op = "processOrderCreated" /\ proc.pc = "done"
    /\ proc.result = "insufficient"
    /\ Len(proc.items) = 3 /\ proc.k = 2
    /\ HoldsReservation(1) /\ ~HoldsReservation(3)
    /\ products.docs["p3"].exists /\ products.docs["p3"].stockQuantity >= 1

\* C36 as stated: processOrderCancelled ends only after a release has been
\* attempted for every item of the event, whether or not one of them failed.
C36_AsStated ==
    (proc.op = "processOrderCancelled" /\ proc.pc = "done") =>
        proc.k = Len(proc.items)

\* C37 as stated: a call that has stored the status cancelled, cancelOrder
\* or updateOrderStatus alike, ends with an order.cancelled event handed to
\* the queue.
C37_AsStated ==
    \A r \in Requests :
        (/\ reqs[r].pc = "done" /\ reqs[r].result = "ok"
         /\ reqs[r].op \in {"cancelOrder", "updateOrderStatus"}
         /\ reqs[r].doc.status = "cancelled") =>
            reqs[r].evType = "order.cancelled" /\ reqs[r].handed >= 1

\* the sum of the quantities of reservation records
RECURSIVE ReservedSum(_)
ReservedSum(rs) ==
    IF Len(rs) = 0 THEN 0 ELSE Head(rs).quantity + ReservedSum(Tail(rs))

\* C38 as stated: every stored product's reservedQuantity is the sum of the
\* quantities of its reservation records.
C38_AsStated ==
    \A p \in ProductIds :
        products.docs[p].exists =>
            products.docs[p].reservedQuantity = ReservedSum(products.docs[p].reservations)

\* C39 as stated: the message of an order.created or order.cancelled event
\* is acknowledged only if its notification record was persisted and, for
\* order.created, the publish that follows did not throw.
C39_AsStated ==
    [][\A m \in Msgs :
          (Handling(m) /\ msgs'[m].ack) =>
              /\ notifs[notc[1].id].status # "none"
              /\ notc[1].result # "publish_threw"]_vars

====
